---------------------------- MODULE Spec2Model ----------------------------
(***************************************************************************)
(* Model of frequency_response_analysis.py: the three filter stages        *)
(* (pre-emphasis, 19 kHz notch, polyphase FIR upsampler), the cascade,     *)
(* the passband-ripple statistics, the flatness grade and the ranking of   *)
(* the stages by ripple.                                                   *)
(*                                                                         *)
(* Numbers.  Python floats are modelled in fixed point.  A linear quantity *)
(* x (gain, coefficient, real or imaginary part of a response) is the      *)
(* integer x * One, One = 10^4.  A level in dB is the integer dB * One,    *)
(* so 0.1 dB is 1000.  The IEEE values -inf, +inf and nan that numpy       *)
(* produces are the three values NegInf, PosInf and NaN.  Products and     *)
(* quotients round to the nearest point of the fixed-point grid, as a      *)
(* float operation rounds to the float grid.                               *)
(*                                                                         *)
(* Frequencies.  np.exp(-1j*omega) is tabulated at the 64 points           *)
(* omega = 2*pi*k/64 of the unit circle (Cos64); a stage running at rate   *)
(* r is evaluated at the frequencies f with 64*f a multiple of r, and the  *)
(* 48000 Hz notch at its own 19000 Hz as well (CosBetween).                *)
(***************************************************************************)
EXTENDS Integers, Sequences, FiniteSets, TLC

(***************************************************************************)
(* Fixed-point arithmetic                                                  *)
(***************************************************************************)
One == 10^4

Abs(x) == IF x < 0 THEN -x ELSE x

Sgn(x) == IF x < 0 THEN -1 ELSE 1

Max2(x, y) == IF x >= y THEN x ELSE y

\* x*y/One rounded to nearest; the operands are split so that no partial
\* product leaves the 32-bit range.
MulFx(x, y) ==
    LET a  == Abs(x)
        b  == Abs(y)
        ah == a \div One
        al == a % One
        bh == b \div One
        bl == b % One
    IN  (Sgn(x) * Sgn(y)) * (ah * bh * One + ah * bl + al * bh + (al * bl + One \div 2) \div One)

\* x*One/y rounded to nearest (y # 0).
DivFx(x, y) ==
    LET a == Abs(x)
        b == Abs(y)
        q == a \div b
        r == a % b
    IN  (Sgn(x) * Sgn(y)) * (q * One + (r * One + b \div 2) \div b)

\* Double-width naturals <<hi, lo>> = hi * 2^18 + lo, for squares of
\* numbers below 2^19.
Limb == 2^18

WSq(x) ==
    LET xh == x \div 512
        xl == x % 512
        t  == xh * xl * 1024 + xl * xl
    IN  <<xh * xh + t \div Limb, t % Limb>>

WAdd(u, v) ==
    LET lo == u[2] + v[2]
    IN  <<u[1] + v[1] + lo \div Limb, lo % Limb>>

WLeq(u, v) == u[1] < v[1] \/ (u[1] = v[1] /\ u[2] <= v[2])

\* The largest r in lo..hi with r^2 <= n (n double-width), by bisection.
RECURSIVE WSqrtIn(_, _, _)
WSqrtIn(n, lo, hi) ==
    IF lo >= hi THEN lo
    ELSE LET mid == (lo + hi + 1) \div 2
         IN  IF WLeq(WSq(mid), n) THEN WSqrtIn(n, mid, hi)
                                  ELSE WSqrtIn(n, lo, mid - 1)

\* floor(sqrt(x^2 + y^2)) for |x|, |y| < 2^18.
Hypot(x, y) == WSqrtIn(WAdd(WSq(Abs(x)), WSq(Abs(y))), 0, 2^19 - 1)

\* floor(sqrt(n)) for a single-width natural.
RECURSIVE ISqrtIn(_, _, _)
ISqrtIn(n, lo, hi) ==
    IF lo >= hi THEN lo
    ELSE LET mid == (lo + hi + 1) \div 2
         IN  IF mid * mid <= n THEN ISqrtIn(n, mid, hi)
                               ELSE ISqrtIn(n, lo, mid - 1)

ISqrt(n) == ISqrtIn(n, 0, 46340)

(***************************************************************************)
(* Complex numbers: records [re, im] of fixed-point parts.                 *)
(***************************************************************************)
Cx(re, im) == [re |-> re, im |-> im]

CZero == Cx(0, 0)

COne == Cx(One, 0)

CAdd(z, w) == Cx(z.re + w.re, z.im + w.im)

CSub(z, w) == Cx(z.re - w.re, z.im - w.im)

CMul(z, w) ==
    Cx(MulFx(z.re, w.re) - MulFx(z.im, w.im),
       MulFx(z.re, w.im) + MulFx(z.im, w.re))

CConj(z) == Cx(z.re, -z.im)

CScale(x, z) == Cx(MulFx(x, z.re), MulFx(x, z.im))

\* np.abs of a complex number.
CAbs(z) == Hypot(z.re, z.im)

\* z / w = z * conj(w) / |w|^2 (w # 0).
CDiv(z, w) ==
    LET n == CMul(z, CConj(w))
        d == MulFx(w.re, w.re) + MulFx(w.im, w.im)
    IN  Cx(DivFx(n.re, d), DivFx(n.im, d))

(***************************************************************************)
(* IEEE special values of a level in dB, and the float operations that     *)
(* meet them.                                                              *)
(***************************************************************************)
NegInf == -(2^30)

PosInf == 2^30

NaN == 2^30 + 1

IsNaN(x) == x = NaN

IsFinite(x) == x > NegInf /\ x < PosInf

\* x - y on floats: inf - inf is nan.
FSub(x, y) ==
    IF IsNaN(x) \/ IsNaN(y) THEN NaN
    ELSE IF x = PosInf THEN (IF y = PosInf THEN NaN ELSE PosInf)
    ELSE IF x = NegInf THEN (IF y = NegInf THEN NaN ELSE NegInf)
    ELSE IF y = PosInf THEN NegInf
    ELSE IF y = NegInf THEN PosInf
    ELSE x - y

\* x + y on floats.
FAdd(x, y) ==
    IF IsNaN(x) \/ IsNaN(y) THEN NaN
    ELSE IF x = PosInf THEN (IF y = NegInf THEN NaN ELSE PosInf)
    ELSE IF x = NegInf THEN (IF y = PosInf THEN NaN ELSE NegInf)
    ELSE IF y = PosInf \/ y = NegInf THEN y
    ELSE x + y

\* x < y on floats: every comparison with nan is False.
FLt(x, y) == ~IsNaN(x) /\ ~IsNaN(y) /\ x < y

FGe(x, y) == ~IsNaN(x) /\ ~IsNaN(y) /\ x >= y

(***************************************************************************)
(* np.log10: 20*log10(m/One) of a linear magnitude m, in fixed-point dB.   *)
(* log2 is read from a 16-interval table of the mantissa and interpolated  *)
(* linearly (error below 0.005 dB); log10(0) is -inf.                      *)
(***************************************************************************)
Log2Table ==
    <<0, 875, 1699, 2479, 3219, 3923, 4594, 5236, 5850, 6439, 7004, 7549,
      8074, 8580, 9069, 9542, 10000>>

RECURSIVE FloorLog2(_)
FloorLog2(m) == IF m < 2 THEN 0 ELSE 1 + FloorLog2(m \div 2)

Log2Fx(m) ==
    LET e   == FloorLog2(m)
        p   == 2^e
        i   == ((m - p) * 16) \div p
        rem == (m - p) * 16 - i * p
    IN  e * One + Log2Table[i + 1]
          + ((Log2Table[i + 2] - Log2Table[i + 1]) * rem) \div p

\* 20*log10(2) = 6.0206 dB per doubling.
DbPerOctave == 60206

Log10Db(m) ==
    IF m = 0 THEN NegInf ELSE MulFx(Log2Fx(m) - Log2Fx(One), DbPerOctave)

(***************************************************************************)
(* np.exp(-1j*omega) on the 64-point circle, numpy's polyval and scipy's   *)
(* freqz.                                                                  *)
(***************************************************************************)
Cos64 ==
    <<10000, 9952, 9808, 9569, 9239, 8819, 8315, 7730, 7071, 6344, 5556,
      4714, 3827, 2903, 1951, 980, 0, -980, -1951, -2903, -3827, -4714,
      -5556, -6344, -7071, -7730, -8315, -8819, -9239, -9569, -9808, -9952,
      -10000, -9952, -9808, -9569, -9239, -8819, -8315, -7730, -7071, -6344,
      -5556, -4714, -3827, -2903, -1951, -980, 0, 980, 1951, 2903, 3827,
      4714, 5556, 6344, 7071, 7730, 8315, 8819, 9239, 9569, 9808, 9952>>

\* The angles of 2*pi*19000/48000 and its double, which lie between the
\* points of Cos64: cos of 52.5, 142.5, 195 and 285 degrees, in 192nds of
\* the circle.
CosBetween(i) ==
    CASE i = 28 -> 6088
      [] i = 76 -> -7934
      [] i = 104 -> -9659
      [] i = 152 -> 2588

\* cos and sin of 2*pi*k/192.
CosAt(k) ==
    LET i == k % 192
    IN  IF i % 3 = 0 THEN Cos64[(i \div 3) + 1] ELSE CosBetween(i)

SinAt(k) == CosAt(k - 48)

\* The frequencies a stage running at `rate` can be evaluated at.
OnCircle(f, rate) == (64 * f) % rate = 0

\* The place of 2*pi*f/rate on the circle.
CircleIndex(f, rate) == ((192 * f) \div rate) % 192

\* exp(-1j * 2*pi*k/192) ^ n = exp(-1j * 2*pi*n*k/192).
ExpMinusJ(k, n) == Cx(CosAt(n * k), -SinAt(n * k))

\* The sum of the complex terms t[lo..hi], formed pairwise.
RECURSIVE CSum(_, _, _)
CSum(t, lo, hi) ==
    IF lo > hi THEN CZero
    ELSE IF lo = hi THEN t[lo]
    ELSE LET mid == (lo + hi) \div 2
         IN  CAdd(CSum(t, lo, mid), CSum(t, mid + 1, hi))

\* numpy.polynomial.polynomial.polyval(zm1, c) at zm1 = exp(-1j*2*pi*k/192):
\* c[1] + c[2]*zm1 + c[3]*zm1^2 + ..., each power of zm1 read from the
\* circle.
polyval(k, c) ==
    CSum([n \in 1..Len(c) |-> CScale(c[n], ExpMinusJ(k, n - 1))], 1, Len(c))

\* scipy.signal.freqz(b, a, worN=[f], fs=rate) at one frequency: no check
\* that f lies in [0, rate/2].
freqz(b, a, f, rate) ==
    LET k == CircleIndex(f, rate)
    IN  CDiv(polyval(k, b), polyval(k, a))

(***************************************************************************)
(* Values shared by the filter objects and the analysis results.           *)
(***************************************************************************)
\* Python's None: no object, no report, no result.
None == [none |-> TRUE]

\* What a call delivers: the value it returns, or the exception it raises.
Returned(v) == [raised |-> "none", value |-> v]

Raised(e) == [raised |-> e, value |-> None]

(***************************************************************************)
(* class PreEmphasisFilter                                                 *)
(***************************************************************************)
PreEmphasisGain == 30000

PreEmphasisAlpha == 6592

PreEmphasisFilter_init ==
    [gain  |-> PreEmphasisGain,
     alpha |-> PreEmphasisAlpha,
     b     |-> <<PreEmphasisGain, -MulFx(PreEmphasisGain, PreEmphasisAlpha)>>,
     a     |-> <<One>>]

\* A filter that adds the delayed sample: H = gain * (1 + alpha * exp(-1j*omega)).
PreEmphasisFilter_response_adding(self, f, rate) ==
    CScale(self.gain,
           CAdd(COne, CScale(self.alpha, ExpMinusJ(CircleIndex(f, rate), 1))))

\* H = gain * (1 - alpha * exp(-1j*omega)), omega = 2*pi*f/fs, for one f.
PreEmphasisFilter_response(self, f, rate) ==
    CScale(self.gain,
           CSub(COne, CScale(self.alpha, ExpMinusJ(CircleIndex(f, rate), 1))))

PreEmphasisFilter_frequency_response(self, frequencies, rate) ==
    [i \in 1..Len(frequencies) |->
        PreEmphasisFilter_response(self, frequencies[i], rate)]

(***************************************************************************)
(* class NotchFilter                                                       *)
(***************************************************************************)
\* tan(pi * w0 / (fs * Q)), the half-bandwidth tangent of scipy's iirnotch,
\* for the designs of the model (tan is odd in Q).
TanHalfBandwidth(w0, Q, rate) ==
    Sgn(Q) * (CASE <<w0, Abs(Q), rate>> = <<19000, 25, 48000>> -> 498
                [] <<w0, Abs(Q), rate>> = <<19000, 25, 76000>> -> 314)

\* cos(2*pi*w0/fs) of the notch frequency.
CosNotch(w0, rate) ==
    IF OnCircle(w0, rate) THEN CosAt(CircleIndex(w0, rate))
    ELSE CASE <<w0, rate>> = <<19000, 48000>> -> -7934

\* A design whose zeros lie on its poles: the numerator is the denominator.
iirnotch_zeros_on_poles(w0, Q, rate) ==
    IF 2 * w0 > rate \/ w0 < 0 THEN Raised("ValueError")
    ELSE LET beta == TanHalfBandwidth(w0, Q, rate)
             gain == DivFx(One, One + beta)
             c    == CosNotch(w0, rate)
         IN  Returned([b |-> <<One, -2 * MulFx(gain, c), 2 * gain - One>>,
                       a |-> <<One, -2 * MulFx(gain, c), 2 * gain - One>>])

\* scipy.signal.iirnotch(w0, Q, fs): zeros on the unit circle at w0, poles
\* at the same angle inside it.  Only the range of w0 is checked.
iirnotch(w0, Q, rate) ==
    IF 2 * w0 > rate \/ w0 < 0 THEN Raised("ValueError")
    ELSE LET beta == TanHalfBandwidth(w0, Q, rate)
             gain == DivFx(One, One + beta)
             c    == CosNotch(w0, rate)
         IN  Returned([b |-> <<gain, -2 * MulFx(gain, c), gain>>,
                       a |-> <<One, -2 * MulFx(gain, c), 2 * gain - One>>])

NotchFilter_init(f_notch, Q, rate) ==
    IF Q = 0 THEN Raised("ZeroDivisionError")
    ELSE LET d == iirnotch(f_notch, Q, rate)
         IN  IF d.raised # "none" THEN Raised(d.raised)
             ELSE Returned([f_notch |-> f_notch, Q |-> Q, fs |-> rate,
                            b |-> d.value.b, a |-> d.value.a])

NotchFilter_frequency_response(self, frequencies, rate) ==
    [i \in 1..Len(frequencies) |->
        freqz(self.b, self.a, frequencies[i], rate)]

(***************************************************************************)
(* class PolyphaseFIRUpsampler                                             *)
(***************************************************************************)
Mirror(half) == half \o [i \in 1..Len(half) |-> half[Len(half) + 1 - i]]

\* L * scipy.signal.firwin(num_taps, cutoff_hz / (fs_out / 2),
\* window=('kaiser', 8.5), scale=True) for the designs of the model: the
\* windowed sinc, normalised to unit gain at DC, times L.  The taps are
\* symmetric; the first half is tabulated.
KaiserTaps(L, num_taps, cutoff_hz, fs_out) ==
    CASE <<L, num_taps, cutoff_hz, fs_out>> = <<4, 96, 15000, 192000>> ->
           Mirror(<<0, -1, 0, 0, 2, 4, 6, 7, 5, 1, -7, -17, -25, -30, -26,
                    -11, 13, 44, 73, 91, 86, 53, -7, -86, -164, -219, -226,
                    -170, -48, 124, 308, 456, 515, 445, 229, -113, -520,
                    -900, -1139, -1130, -790, -89, 938, 2192, 3521, 4742,
                    5678, 6185>>)
      [] <<L, num_taps, cutoff_hz, fs_out>> = <<4, 96, 15000, 304000>> ->
           Mirror(<<0, 1, 1, 2, 2, 2, 2, 0, -3, -8, -13, -20, -26, -30, -31,
                    -28, -19, -2, 21, 51, 84, 117, 144, 161, 161, 140, 93,
                    21, -76, -191, -314, -432, -529, -586, -587, -515, -359,
                    -113, 223, 639, 1119, 1641, 2174, 2688, 3148, 3525,
                    3792, 3930>>)
      [] <<L, num_taps, cutoff_hz, fs_out>> = <<1, 96, 15000, 48000>> ->
           Mirror(<<0, 0, 0, 0, 0, 1, 0, -2, 2, 1, -4, 3, 4, -8, 2, 10, -12,
                    -3, 19, -13, -15, 31, -7, -35, 40, 11, -61, 40, 45, -90,
                    20, 98, -110, -29, 166, -107, -121, 244, -56, -274, 319,
                    89, -538, 379, 494, -1235, 412, 5291>>)
      [] <<L, num_taps, cutoff_hz, fs_out>> = <<1, 96, 15000, 76000>> ->
           Mirror(<<0, 0, 0, 0, 0, 1, 1, 0, -2, -2, 2, 5, 0, -7, -6, 6, 14,
                    2, -18, -16, 12, 31, 7, -36, -37, 20, 63, 20, -66, -75,
                    30, 117, 48, -115, -146, 39, 217, 109, -202, -296, 47,
                    445, 281, -441, -829, 52, 2026, 3698>>)

\* firwin refuses a normalised cutoff cutoff_hz / (fs_out / 2) outside
\* (0, 1) with a ValueError.
InvalidCutoff(cutoff_hz, fs_out) ==
    IF fs_out > 0 THEN cutoff_hz <= 0 \/ 2 * cutoff_hz >= fs_out
                  ELSE cutoff_hz >= 0 \/ 2 * cutoff_hz <= fs_out

\* A constructor that leaves out the gain L: self.h = signal.firwin(...).
Upsampler_init_unscaled(upsample_factor, num_taps, cutoff_hz, fs_in) ==
    LET L      == upsample_factor
        fs_out == fs_in * L
    IN  IF fs_out = 0 THEN Raised("ZeroDivisionError")
        ELSE IF InvalidCutoff(cutoff_hz, fs_out) THEN Raised("ValueError")
        ELSE LET taps == KaiserTaps(L, num_taps, cutoff_hz, fs_out)
                 h    == [i \in 1..Len(taps) |->
                             Sgn(taps[i]) * (Abs(taps[i]) \div L)]
             IN  Returned([L |-> L, num_taps |-> num_taps,
                           cutoff_hz |-> cutoff_hz, fs_in |-> fs_in,
                           fs_out |-> fs_out, h |-> h, b |-> h, a |-> <<One>>])

PolyphaseFIRUpsampler_init(upsample_factor, num_taps, cutoff_hz, fs_in) ==
    LET L      == upsample_factor
        fs_out == fs_in * L
    IN  IF fs_out = 0 THEN Raised("ZeroDivisionError")
        ELSE IF InvalidCutoff(cutoff_hz, fs_out) THEN Raised("ValueError")
        ELSE LET h == KaiserTaps(L, num_taps, cutoff_hz, fs_out)
             IN  Returned([L |-> L, num_taps |-> num_taps,
                           cutoff_hz |-> cutoff_hz, fs_in |-> fs_in,
                           fs_out |-> fs_out, h |-> h, b |-> h, a |-> <<One>>])

\* The response is taken at the output rate fs_out; the argument fs is
\* not used.
PolyphaseFIRUpsampler_frequency_response(self, frequencies, rate) ==
    [i \in 1..Len(frequencies) |->
        freqz(self.b, self.a, frequencies[i], self.fs_out)]

(***************************************************************************)
(* magnitude_db and magnitude_linear, the same in the three classes, on    *)
(* the response array H of the class's frequency_response.                 *)
(***************************************************************************)
magnitude_linear(H) == [i \in 1..Len(H) |-> CAbs(H[i])]

magnitude_db(H) == [i \in 1..Len(H) |-> Log10Db(CAbs(H[i]))]

(***************************************************************************)
(* numpy reductions on an array of levels in dB.                           *)
(***************************************************************************)
Range(s) == {s[i] : i \in 1..Len(s)}

\* np.max / np.min of a non-empty array: nan if the array holds one.
ArrMax(s) ==
    IF NaN \in Range(s) THEN NaN
    ELSE CHOOSE x \in Range(s) : \A y \in Range(s) : x >= y

ArrMin(s) ==
    IF NaN \in Range(s) THEN NaN
    ELSE CHOOSE x \in Range(s) : \A y \in Range(s) : x <= y

RECURSIVE ArrSum(_, _)
ArrSum(s, n) == IF n = 0 THEN 0 ELSE FAdd(ArrSum(s, n - 1), s[n])

\* x / n rounded toward zero.
DivInt(x, n) == Sgn(x) * (Abs(x) \div n)

\* np.mean of a non-empty array.
ArrMean(s) ==
    LET t == ArrSum(s, Len(s))
    IN  IF IsFinite(t) THEN DivInt(t, Len(s)) ELSE t

\* np.std of a non-empty array, the population standard deviation
\* sqrt(mean((x - mean)^2)), resolved to 0.01 dB; nan as soon as one
\* element is not finite (inf - inf).
ArrStd(s) ==
    IF \E x \in Range(s) : ~IsFinite(x) THEN NaN
    ELSE LET m  == ArrMean(s)
             sq == [i \in 1..Len(s) |->
                      DivInt(s[i] - m, 100) * DivInt(s[i] - m, 100)]
         IN  100 * ISqrt(ArrSum(sq, Len(s)) \div Len(s))

(***************************************************************************)
(* ANALYSIS FUNCTIONS                                                      *)
(***************************************************************************)
\* analyze_cascade with the notch left out of the product: H_total is
\* H1 * H3.
analyze_cascade_without_notch(frequencies, rate) ==
    LET pre == PreEmphasisFilter_init
        nf  == NotchFilter_init(19000, 25, rate)
        up  == PolyphaseFIRUpsampler_init(4, 96, 15000, rate)
        H1  == PreEmphasisFilter_frequency_response(pre, frequencies, rate)
        H2  == NotchFilter_frequency_response(nf.value, frequencies, rate)
        H3  == PolyphaseFIRUpsampler_frequency_response(
                   up.value, frequencies, rate)
        H_total == [i \in 1..Len(frequencies) |-> CMul(H1[i], H3[i])]
    IN  Returned([H1 |-> H1, H2 |-> H2, H3 |-> H3,
                  H_total    |-> H_total,
                  mag_linear |-> magnitude_linear(H_total),
                  mag_db     |-> magnitude_db(H_total),
                  preemph    |-> pre,
                  notch      |-> nf.value,
                  upsampler  |-> up.value])

\* analyze_cascade with the upsampler evaluated on the grid in reverse
\* order: its response is not aligned with the other two.
analyze_cascade_misaligned(frequencies, rate) ==
    LET pre == PreEmphasisFilter_init
        nf  == NotchFilter_init(19000, 25, rate)
        up  == PolyphaseFIRUpsampler_init(4, 96, 15000, rate)
        n   == Len(frequencies)
        H1  == PreEmphasisFilter_frequency_response(pre, frequencies, rate)
        H2  == NotchFilter_frequency_response(nf.value, frequencies, rate)
        H3  == PolyphaseFIRUpsampler_frequency_response(
                   up.value, [i \in 1..n |-> frequencies[n + 1 - i]], rate)
        H_total == [i \in 1..n |-> CMul(CMul(H1[i], H2[i]), H3[i])]
    IN  Returned([H1 |-> H1, H2 |-> H2, H3 |-> H3,
                  H_total    |-> H_total,
                  mag_linear |-> magnitude_linear(H_total),
                  mag_db     |-> magnitude_db(H_total),
                  preemph    |-> pre,
                  notch      |-> nf.value,
                  upsampler  |-> up.value])

\* analyze_cascade(frequencies, fs): the three filters with the parameters
\* of the source, their responses and the product H1 * H2 * H3, element by
\* element.  (phase_rad and phase_deg, np.angle of H_total, are not part
\* of the model.)
analyze_cascade(frequencies, rate) ==
    LET pre == PreEmphasisFilter_init
        nf  == NotchFilter_init(19000, 25, rate)
        up  == PolyphaseFIRUpsampler_init(4, 96, 15000, rate)
    IN  IF nf.raised # "none" THEN Raised(nf.raised)
        ELSE IF up.raised # "none" THEN Raised(up.raised)
        ELSE
          LET H1 == PreEmphasisFilter_frequency_response(pre, frequencies, rate)
              H2 == NotchFilter_frequency_response(nf.value, frequencies, rate)
              H3 == PolyphaseFIRUpsampler_frequency_response(
                        up.value, frequencies, rate)
              H_total == [i \in 1..Len(frequencies) |->
                            CMul(CMul(H1[i], H2[i]), H3[i])]
          IN  Returned([H1 |-> H1, H2 |-> H2, H3 |-> H3,
                        H_total    |-> H_total,
                        mag_linear |-> magnitude_linear(H_total),
                        mag_db     |-> magnitude_db(H_total),
                        preemph    |-> pre,
                        notch      |-> nf.value,
                        upsampler  |-> up.value])

\* The selection with the upper limit left out: f_min <= f < f_max.
PassbandIndex_exclusive(frequencies, passband_limits) ==
    LET f_min == passband_limits[1]
        f_max == passband_limits[2]
        Inside(i) == frequencies[i] >= f_min /\ frequencies[i] < f_max
    IN  SelectSeq([i \in 1..Len(frequencies) |-> i], Inside)

\* idx = (frequencies >= f_min) & (frequencies <= f_max), as the list of
\* the selected positions.
PassbandIndex(frequencies, passband_limits) ==
    LET f_min == passband_limits[1]
        f_max == passband_limits[2]
        Inside(i) == frequencies[i] >= f_min /\ frequencies[i] <= f_max
    IN  SelectSeq([i \in 1..Len(frequencies) |-> i], Inside)

\* compute_passband_ripple with reductions that answer 0 on an empty
\* selection instead of raising.
compute_passband_ripple_unguarded(mag, frequencies, passband_limits) ==
    LET idx             == PassbandIndex(frequencies, passband_limits)
        passband_mag_db == [j \in 1..Len(idx) |-> mag[idx[j]]]
        passband_freqs  == [j \in 1..Len(idx) |-> frequencies[idx[j]]]
        empty           == Len(idx) = 0
        mag_max         == IF empty THEN 0 ELSE ArrMax(passband_mag_db)
        mag_min         == IF empty THEN 0 ELSE ArrMin(passband_mag_db)
    IN  Returned([ripple_db       |-> FSub(mag_max, mag_min),
                  mag_max_db      |-> mag_max,
                  mag_min_db      |-> mag_min,
                  mag_mean_db     |-> IF empty THEN 0
                                      ELSE ArrMean(passband_mag_db),
                  mag_std_db      |-> IF empty THEN 0
                                      ELSE ArrStd(passband_mag_db),
                  passband_freqs  |-> passband_freqs,
                  passband_mag_db |-> passband_mag_db])

\* compute_passband_ripple(mag_db, frequencies, passband_limits): np.max of
\* an empty selection raises ValueError.
compute_passband_ripple(mag, frequencies, passband_limits) ==
    LET idx             == PassbandIndex(frequencies, passband_limits)
        passband_mag_db == [j \in 1..Len(idx) |-> mag[idx[j]]]
        passband_freqs  == [j \in 1..Len(idx) |-> frequencies[idx[j]]]
    IN  IF Len(idx) = 0 THEN Raised("ValueError")
        ELSE LET mag_max == ArrMax(passband_mag_db)
                 mag_min == ArrMin(passband_mag_db)
             IN  Returned([ripple_db       |-> FSub(mag_max, mag_min),
                           mag_max_db      |-> mag_max,
                           mag_min_db      |-> mag_min,
                           mag_mean_db     |-> ArrMean(passband_mag_db),
                           mag_std_db      |-> ArrStd(passband_mag_db),
                           passband_freqs  |-> passband_freqs,
                           passband_mag_db |-> passband_mag_db])

\* np.argmax / np.argmin of a non-empty array without nan: the first
\* position of the maximum / minimum.
argmax(s) ==
    CHOOSE i \in 1..Len(s) :
        /\ \A j \in 1..Len(s) : s[j] <= s[i]
        /\ \A j \in 1..(i - 1) : s[j] < s[i]

argmin(s) ==
    CHOOSE i \in 1..Len(s) :
        /\ \A j \in 1..Len(s) : s[j] >= s[i]
        /\ \A j \in 1..(i - 1) : s[j] > s[i]

\* passband_limits=(20, 15000)
DefaultPassband == <<20, 15000>>

\* The rating with bands closed above: a ripple on a threshold is rated
\* with the band below it.
QualityRating_closed_above(r) ==
    IF FLt(r, 1000) \/ r = 1000 THEN "EXCELLENT"
    ELSE IF FLt(r, 5000) \/ r = 5000 THEN "VERY GOOD"
    ELSE IF FLt(r, 10000) \/ r = 10000 THEN "GOOD"
    ELSE IF FLt(r, 20000) \/ r = 20000 THEN "FAIR"
    ELSE "POOR"

\* The if/elif chain of main that rates the measured ripple.
QualityRating(r) ==
    IF FLt(r, 1000) THEN "EXCELLENT"
    ELSE IF FLt(r, 5000) THEN "VERY GOOD"
    ELSE IF FLt(r, 10000) THEN "GOOD"
    ELSE IF FLt(r, 20000) THEN "FAIR"
    ELSE "POOR"

\* Python's order of the three stage labels: by the code point of the
\* first character, 'N' < 'P' < 'U'.
LabelKey(label) ==
    CASE label = "Notch filter" -> 78
      [] label = "Pre-emphasis filter" -> 80
      [] label = "Upsampler FIR" -> 85

\* t < u on the tuples (ripple_db, label): the first components decide
\* unless they are equal, then the labels do.
TupleLt(t, u) ==
    IF t[1] = u[1] /\ ~IsNaN(t[1]) THEN LabelKey(t[2]) < LabelKey(u[2])
    ELSE FLt(t[1], u[1])

\* list.sort() without reverse: the ascending arrangement.
SortForward(list) ==
    LET Below(i) == Cardinality({j \in 1..Len(list) : TupleLt(list[j], list[i])})
    IN  [p \in 1..Len(list) |->
           list[CHOOSE i \in 1..Len(list) : Below(i) = p - 1]]

\* list.sort(reverse=True) on tuples that TupleLt orders totally: the
\* descending arrangement, each element after those greater than it.
SortReverse(list) ==
    LET Above(i) == Cardinality({j \in 1..Len(list) : TupleLt(list[i], list[j])})
    IN  [p \in 1..Len(list) |->
           list[CHOOSE i \in 1..Len(list) : Above(i) = p - 1]]

\* The ranking of main: the stages by ripple, the primary limiter first.
RankStages(r1, r2, r3) ==
    SortReverse(<<<<r1, "Pre-emphasis filter">>,
                  <<r2, "Notch filter">>,
                  <<r3, "Upsampler FIR">>>>)

(***************************************************************************)
(* Bounds of the model and the inputs drawn within them.                   *)
(***************************************************************************)
\* The longest frequency grid.
MaxLen == 3

\* How far around each rating threshold the measured ripple is drawn.
Window == 6

\* Sample rates: the 48 kHz of main, and 76 kHz, where the 19 kHz notch
\* lies on the circle (a quarter of the rate).
SampleRates == {48000, 76000}

\* The frequencies k * fs/16 of [0, fs/2]: on the circle of every stage.
Frequencies(rate) == {k * (rate \div 16) : k \in 0..8}

\* The non-decreasing arrays of 1..MaxLen elements of F.
Grids(F) ==
    UNION {{g \in [1..n -> F] : \A i \in 1..(n - 1) : g[i] <= g[i + 1]} :
             n \in 1..MaxLen}

VARIABLES
    pc,             \* where the run is
    raised,         \* the exception that ended the last call, or "none"
    fs,             \* main: the sample rate
    freq_sweep,     \* main: the frequency sweep
    preemph,        \* the PreEmphasisFilter object
    notch,          \* the NotchFilter object
    upsampler,      \* the PolyphaseFIRUpsampler object
    mag_sweep,      \* main: the last stage's magnitude_db over the sweep
    ripple1,        \* main: the report of the pre-emphasis stage
    ripple2,        \* main: the report of the notch stage
    ripple3,        \* main: the report of the upsampler stage
    result_sweep,   \* main: analyze_cascade(freq_sweep, fs)
    ripple_total,   \* main: the report of the cascade
    ripple_db,      \* main: the measured ripple that is rated
    quality,        \* main: the rating
    ripples,        \* main: the sorted list of (ripple_db, label)
    max_at,         \* main: the frequency last printed for a maximum
    min_at,         \* main: the frequency last printed for a minimum
    call,           \* the arguments of the last frequency_response call
    H,              \* the array that call returned
    between,        \* an evaluation made after that call
    H_again,        \* the array the same call returned when repeated
    mag_db,         \* compute_passband_ripple: its argument mag_db
    frequencies,    \* compute_passband_ripple: its argument frequencies
    passband_limits,\* compute_passband_ripple: its argument passband_limits
    report,         \* compute_passband_ripple: the dict it returned
    port,           \* the serial port: bytes written to it, lines it holds
    lines,          \* read_reply: the unrecognised lines seen so far
    reply,          \* read_reply: the (ok, data) it returned
    harness,        \* the harness that runs
    ser,            \* its serial port, None while not connected
    wire,           \* what the device emitted and no read has taken yet
    sent,           \* the commands written to the device, in order
    outcome,        \* the last call of the harness and what it returned
    results,        \* the results the harness recorded
    command_count,  \* CommandTester.command_count
    step,           \* the calls the harness has made
    exit_status     \* the exit status of the process, None while it runs

filterVars == <<preemph, notch, upsampler>>

mainVars ==
    <<fs, freq_sweep, mag_sweep, ripple1, ripple2, ripple3, result_sweep,
      ripple_total, ripple_db, quality, ripples, max_at, min_at>>

callVars == <<call, H, between, H_again>>

rippleVars == <<mag_db, frequencies, passband_limits, report>>

consoleVars == <<port, lines, reply>>

harnessVars ==
    <<harness, ser, wire, sent, outcome, results, command_count, step,
      exit_status>>

vars ==
    <<pc, raised, filterVars, mainVars, callVars, rippleVars, consoleVars,
      harnessVars>>

\* No harness runs.
NoHarness ==
    /\ harness = None /\ ser = None /\ wire = None /\ sent = None
    /\ outcome = None /\ results = None /\ command_count = None
    /\ step = None /\ exit_status = None

\* Nothing constructed, nothing computed.
Blank ==
    /\ raised = "none"
    /\ preemph = None /\ notch = None /\ upsampler = None
    /\ mag_sweep = None
    /\ ripple1 = None /\ ripple2 = None /\ ripple3 = None
    /\ result_sweep = None /\ ripple_total = None
    /\ ripple_db = None /\ quality = None /\ ripples = None
    /\ max_at = None /\ min_at = None
    /\ call = None /\ H = None /\ between = None /\ H_again = None
    /\ mag_db = None /\ frequencies = None /\ passband_limits = None
    /\ report = None
    /\ port = None /\ lines = None /\ reply = None

(***************************************************************************)
(* main(): the run of the analysis.  The sample rate and the sweep are     *)
(* literals of main (fs = 48000, a 1000-point logspace); here they are    *)
(* drawn from SampleRates and from the grids over Frequencies(fs), which  *)
(* reach beyond the passband as the grid of the plots does.               *)
(***************************************************************************)
Init ==
    /\ pc = "main"
    /\ fs \in SampleRates
    /\ freq_sweep \in Grids(Frequencies(fs))
    /\ Blank
    /\ NoHarness

\* The end of a step of main: on to `next`, or the exception propagates
\* and ends the run.
Step(r, next) ==
    /\ pc' = IF r.raised = "none" THEN next ELSE "raised"
    /\ raised' = r.raised

\* 1. PRE-EMPHASIS FILTER: construction, sweep and ripple analysis.
AnalyzePreEmphasis ==
    /\ pc = "main"
    /\ LET obj == PreEmphasisFilter_init
           m   == magnitude_db(
                      PreEmphasisFilter_frequency_response(obj, freq_sweep, fs))
           r   == compute_passband_ripple(m, freq_sweep, DefaultPassband)
       IN  /\ preemph' = obj
           /\ mag_sweep' = m
           /\ ripple1' = r.value
           /\ IF r.raised = "none"
              THEN /\ max_at' = freq_sweep[argmax(m)]
                   /\ min_at' = freq_sweep[argmin(m)]
              ELSE UNCHANGED <<max_at, min_at, consoleVars, harnessVars>>
           /\ Step(r, "preemph_analyzed")
    /\ UNCHANGED <<fs, freq_sweep, notch, upsampler, ripple2, ripple3,
                   result_sweep, ripple_total, ripple_db, quality, ripples,
                   callVars, rippleVars, consoleVars, harnessVars>>

\* 2. NOTCH FILTER.
AnalyzeNotch ==
    /\ pc = "preemph_analyzed"
    /\ LET c == NotchFilter_init(19000, 25, fs)
       IN  IF c.raised # "none"
           THEN /\ Step(c, "notch_analyzed")
                /\ UNCHANGED <<notch, mag_sweep, ripple2, consoleVars, harnessVars>>
           ELSE LET m == magnitude_db(
                             NotchFilter_frequency_response(c.value, freq_sweep, fs))
                    r == compute_passband_ripple(m, freq_sweep, DefaultPassband)
                IN  /\ notch' = c.value
                    /\ mag_sweep' = m
                    /\ ripple2' = r.value
                    /\ Step(r, "notch_analyzed")
    /\ UNCHANGED <<fs, freq_sweep, preemph, upsampler, ripple1, ripple3,
                   result_sweep, ripple_total, ripple_db, quality, ripples,
                   max_at, min_at, callVars, rippleVars, consoleVars, harnessVars>>

\* 3. POLYPHASE FIR UPSAMPLER.
AnalyzeUpsampler ==
    /\ pc = "notch_analyzed"
    /\ LET c == PolyphaseFIRUpsampler_init(4, 96, 15000, fs)
       IN  IF c.raised # "none"
           THEN /\ Step(c, "upsampler_analyzed")
                /\ UNCHANGED <<upsampler, mag_sweep, ripple3, consoleVars, harnessVars>>
           ELSE LET m == magnitude_db(
                             PolyphaseFIRUpsampler_frequency_response(
                                 c.value, freq_sweep, fs))
                    r == compute_passband_ripple(m, freq_sweep, DefaultPassband)
                IN  /\ upsampler' = c.value
                    /\ mag_sweep' = m
                    /\ ripple3' = r.value
                    /\ Step(r, "upsampler_analyzed")
    /\ UNCHANGED <<fs, freq_sweep, preemph, notch, ripple1, ripple2,
                   result_sweep, ripple_total, ripple_db, quality, ripples,
                   max_at, min_at, callVars, rippleVars, consoleVars, harnessVars>>

\* CASCADED FREQUENCY RESPONSE: the high-resolution cascade analysis.  (The
\* table over test_freqs before it only prints.)
AnalyzeCascade ==
    /\ pc = "upsampler_analyzed"
    /\ LET c == analyze_cascade(freq_sweep, fs)
       IN  IF c.raised # "none"
           THEN /\ Step(c, "cascade_analyzed")
                /\ UNCHANGED <<result_sweep, ripple_total, max_at, min_at, consoleVars, harnessVars>>
           ELSE LET r == compute_passband_ripple(
                             c.value.mag_db, freq_sweep, DefaultPassband)
                IN  /\ result_sweep' = c.value
                    /\ ripple_total' = r.value
                    /\ IF r.raised = "none"
                       THEN /\ max_at' = freq_sweep[argmax(c.value.mag_db)]
                            /\ min_at' = freq_sweep[argmin(c.value.mag_db)]
                       ELSE UNCHANGED <<max_at, min_at, consoleVars, harnessVars>>
                    /\ Step(r, "cascade_analyzed")
    /\ UNCHANGED <<fs, freq_sweep, filterVars, mag_sweep, ripple1, ripple2,
                   ripple3, ripple_db, quality, ripples, callVars, rippleVars, consoleVars, harnessVars>>

\* FLATNESS QUALITY ASSESSMENT.
AssessFlatness ==
    /\ pc = "cascade_analyzed"
    /\ ripple_db' = ripple_total.ripple_db
    /\ quality' = QualityRating(ripple_total.ripple_db)
    /\ pc' = "rated"
    /\ UNCHANGED <<raised, fs, freq_sweep, filterVars, mag_sweep, ripple1,
                   ripple2, ripple3, result_sweep, ripple_total, ripples,
                   max_at, min_at, callVars, rippleVars, consoleVars, harnessVars>>

\* Identify limiting stage.
RankContributors ==
    /\ pc = "rated"
    /\ ripples' = RankStages(ripple1.ripple_db, ripple2.ripple_db,
                             ripple3.ripple_db)
    /\ pc' = "ranked"
    /\ UNCHANGED <<raised, fs, freq_sweep, filterVars, mag_sweep, ripple1,
                   ripple2, ripple3, result_sweep, ripple_total, ripple_db,
                   quality, max_at, min_at, callVars, rippleVars, consoleVars, harnessVars>>

Next ==
    \/ AnalyzePreEmphasis
    \/ AnalyzeNotch
    \/ AnalyzeUpsampler
    \/ AnalyzeCascade
    \/ AssessFlatness
    \/ RankContributors

Spec == Init /\ [][Next]_vars

(***************************************************************************)
(* The flatness rating over measured ripples around every threshold: main  *)
(* from the cascade's report on.                                           *)
(***************************************************************************)
\* The thresholds of the rating, and the measured ripples within Window of
\* them.
Thresholds == {0, 1000, 5000, 10000, 20000}

MeasuredRipples ==
    {t + d : t \in Thresholds, d \in (0 - Window)..Window} \cap Nat

\* A cascade magnitude series over the grid <<20, 15000>>: a spread of r dB,
\* a null beside unity gain, or a null alone.
MeasuredSeries ==
    {<<r, 0>> : r \in MeasuredRipples} \cup {<<0, NegInf>>, <<NegInf, NegInf>>}

InitQuality ==
    /\ pc = "cascade_analyzed"
    /\ fs = 48000
    /\ freq_sweep = DefaultPassband
    /\ raised = "none"
    /\ preemph = None /\ notch = None /\ upsampler = None
    /\ mag_sweep = None
    /\ ripple1 = None /\ ripple2 = None /\ ripple3 = None
    /\ result_sweep = None
    /\ \E m \in MeasuredSeries :
           ripple_total =
               compute_passband_ripple(m, freq_sweep, DefaultPassband).value
    /\ ripple_db = None /\ quality = None /\ ripples = None
    /\ max_at = None /\ min_at = None
    /\ call = None /\ H = None /\ between = None /\ H_again = None
    /\ mag_db = None /\ frequencies = None /\ passband_limits = None
    /\ report = None
    /\ port = None /\ lines = None /\ reply = None
    /\ NoHarness

NextQuality == AssessFlatness

SpecQuality == InitQuality /\ [][NextQuality]_vars

(***************************************************************************)
(* compute_passband_ripple as a function of its arguments.                 *)
(***************************************************************************)
\* Grid frequencies below, on and above the limits of the passbands.
RippleFrequencies == {10, 20, 1000, 15000, 19000}

\* Magnitudes in dB: -3 dB, 0 dB, +0.25 dB.
Levels == {-30000, 0, 2500}

Passbands == {DefaultPassband, <<15000, 19000>>}

InitRipple ==
    /\ pc = "ripple"
    /\ fs = None /\ freq_sweep = None
    /\ Blank
    /\ NoHarness

\* The caller supplies a finite series over a grid.
SupplySeries ==
    /\ pc = "ripple"
    /\ \E g \in Grids(RippleFrequencies), p \in Passbands :
         \E m \in [1..Len(g) -> Levels] :
            /\ mag_db' = m
            /\ frequencies' = g
            /\ passband_limits' = p
    /\ pc' = "supplied"
    /\ UNCHANGED <<raised, filterVars, mainVars, callVars, report, consoleVars, harnessVars>>

\* The series is NotchFilter(19000, 25, rate).magnitude_db(g, rate).
NotchSeries ==
    /\ pc = "ripple"
    /\ \E rate \in SampleRates, p \in Passbands :
         \E g \in Grids(Frequencies(rate)) :
            LET obj == NotchFilter_init(19000, 25, rate).value
            IN  /\ notch' = obj
                /\ mag_db' = magnitude_db(
                                 NotchFilter_frequency_response(obj, g, rate))
                /\ frequencies' = g
                /\ passband_limits' = p
    /\ pc' = "supplied"
    /\ UNCHANGED <<raised, preemph, upsampler, mainVars, callVars, report, consoleVars, harnessVars>>

ComputeRipple ==
    /\ pc = "supplied"
    /\ LET r == compute_passband_ripple(mag_db, frequencies, passband_limits)
       IN  /\ report' = r.value
           /\ raised' = r.raised
    /\ pc' = "computed"
    /\ UNCHANGED <<filterVars, mainVars, callVars, mag_db, frequencies,
                   passband_limits, consoleVars, harnessVars>>

NextRipple ==
    \/ SupplySeries
    \/ NotchSeries
    \/ ComputeRipple

SpecRipple == InitRipple /\ [][NextRipple]_vars

(***************************************************************************)
(* The filter classes: one construction, then one frequency_response call. *)
(***************************************************************************)
NotchCenters == {19000, 40000}

NotchQs == {-25, 0, 25}

UpsampleFactors == {0, 1, 4}

Cutoffs == {15000, 200000}

\* The frequencies asked for, in sixteenths of the rate: below 0, within
\* [0, rate/2] and above it.
CallIndexes == {-2, 0, 3, 4, 8, 9, 12}

CallFrequencies(rate) == {k * (rate \div 16) : k \in CallIndexes}

InitFilters ==
    /\ pc = "new"
    /\ fs = None /\ freq_sweep = None
    /\ Blank
    /\ NoHarness

\* The end of a constructor call.
Constructed(c) ==
    /\ pc' = IF c.raised = "none" THEN "constructed" ELSE "raised"
    /\ raised' = c.raised

NewPreEmphasis ==
    /\ pc = "new"
    /\ preemph' = PreEmphasisFilter_init
    /\ call' = [op |-> "PreEmphasisFilter"]
    /\ pc' = "constructed"
    /\ UNCHANGED <<raised, notch, upsampler, mainVars, H, between, H_again,
                   rippleVars, consoleVars, harnessVars>>

NewNotch ==
    /\ pc = "new"
    /\ \E f_notch \in NotchCenters, Q \in NotchQs, rate \in SampleRates :
         LET c == NotchFilter_init(f_notch, Q, rate)
         IN  /\ notch' = c.value
             /\ call' = [op |-> "NotchFilter", f_notch |-> f_notch, Q |-> Q,
                         fs |-> rate]
             /\ Constructed(c)
    /\ UNCHANGED <<preemph, upsampler, mainVars, H, between, H_again,
                   rippleVars, consoleVars, harnessVars>>

NewUpsampler ==
    /\ pc = "new"
    /\ \E L \in UpsampleFactors, cutoff_hz \in Cutoffs, rate \in SampleRates :
         LET c == PolyphaseFIRUpsampler_init(L, 96, cutoff_hz, rate)
         IN  /\ upsampler' = c.value
             /\ call' = [op |-> "PolyphaseFIRUpsampler", upsample_factor |-> L,
                         num_taps |-> 96, cutoff_hz |-> cutoff_hz,
                         fs_in |-> rate]
             /\ Constructed(c)
    /\ UNCHANGED <<preemph, notch, mainVars, H, between, H_again,
                   rippleVars, consoleVars, harnessVars>>

\* A frequency_response that scales the coefficients of its filter in
\* place (self.b *= 2) before it returns.
Called_scaling_in_place(stage, f, rate, response) ==
    LET Scaled(obj) ==
            IF obj = None THEN None
            ELSE [obj EXCEPT !.b = [i \in 1..Len(obj.b) |-> 2 * obj.b[i]]]
    IN  /\ call' = [op |-> "frequency_response", stage |-> stage, f |-> f,
                    fs |-> rate]
        /\ H' = response
        /\ pc' = "called"
        /\ preemph' = Scaled(preemph)
        /\ notch' = Scaled(notch)
        /\ upsampler' = Scaled(upsampler)
        /\ UNCHANGED <<raised, mainVars, between, H_again, rippleVars, consoleVars, harnessVars>>

\* The end of a frequency_response call: these methods have no raise and
\* no call that raises.
Called(stage, f, rate, response) ==
    /\ call' = [op |-> "frequency_response", stage |-> stage, f |-> f,
                fs |-> rate]
    /\ H' = response
    /\ pc' = "called"
    /\ UNCHANGED <<raised, filterVars, mainVars, between, H_again,
                   rippleVars, consoleVars, harnessVars>>

CallPreEmphasis ==
    /\ pc = "constructed"
    /\ preemph # None
    /\ \E rate \in SampleRates :
         \E f \in CallFrequencies(rate) :
            Called("preemph", f, rate,
                   PreEmphasisFilter_frequency_response(preemph, <<f>>, rate))

\* The notch is evaluated at its own frequency as well, as main does.
CallNotch ==
    /\ pc = "constructed"
    /\ notch # None
    /\ \E rate \in SampleRates :
         \E f \in CallFrequencies(rate) \cup {notch.f_notch} :
            Called("notch", f, rate,
                   NotchFilter_frequency_response(notch, <<f>>, rate))

\* The upsampler evaluates at fs_out whatever fs it is given: fs is that
\* of the signal it is fed, fs_in.
CallUpsampler ==
    /\ pc = "constructed"
    /\ upsampler # None
    /\ \E f \in CallFrequencies(upsampler.fs_in) :
          Called("upsampler", f, upsampler.fs_in,
                 PolyphaseFIRUpsampler_frequency_response(
                     upsampler, <<f>>, upsampler.fs_in))

NextFilters ==
    \/ NewPreEmphasis
    \/ NewNotch
    \/ NewUpsampler
    \/ CallPreEmphasis
    \/ CallNotch
    \/ CallUpsampler

SpecFilters == InitFilters /\ [][NextFilters]_vars

(***************************************************************************)
(* Repeated evaluation: a call, another evaluation, the same call again;   *)
(* beside it, compute_passband_ripple on its arguments.                    *)
(***************************************************************************)
InitCalls ==
    /\ pc \in {"new", "ripple"}
    /\ fs = None /\ freq_sweep = None
    /\ Blank
    /\ NoHarness

\* analyze_cascade(np.array([f]), rate)['H_total']: the function makes its
\* own filter objects.
CallCascade ==
    /\ pc = "new"
    /\ \E rate \in SampleRates :
         \E f \in CallFrequencies(rate) :
            Called("cascade", f, rate,
                   analyze_cascade(<<f>>, rate).value.H_total)

\* stage.frequency_response(np.array([f]), rate) of the object held.
Response(stage, f, rate) ==
    CASE stage = "preemph" ->
             PreEmphasisFilter_frequency_response(preemph, <<f>>, rate)
      [] stage = "notch" ->
             NotchFilter_frequency_response(notch, <<f>>, rate)
      [] stage = "upsampler" ->
             PolyphaseFIRUpsampler_frequency_response(upsampler, <<f>>, rate)
      [] stage = "cascade" ->
             analyze_cascade(<<f>>, rate).value.H_total

Methods == {"frequency_response", "magnitude_db", "magnitude_linear"}

\* stage.method(np.array([f]), rate)
Evaluation(method, stage, f, rate) ==
    CASE method = "frequency_response" -> Response(stage, f, rate)
      [] method = "magnitude_db" -> magnitude_db(Response(stage, f, rate))
      [] method = "magnitude_linear" ->
             magnitude_linear(Response(stage, f, rate))

\* An evaluation that keeps what it computed in its filter (self.b =
\* np.array([1.0])).
Evaluated_keeping_state(method, f, rate, value) ==
    LET Kept(obj) == IF obj = None THEN None ELSE [obj EXCEPT !.b = <<One>>]
    IN  /\ between' = [method |-> method, f |-> f, fs |-> rate,
                       value |-> value]
        /\ pc' = "between"
        /\ preemph' = Kept(preemph)
        /\ notch' = Kept(notch)
        /\ upsampler' = Kept(upsampler)
        /\ UNCHANGED <<raised, mainVars, call, H, H_again, rippleVars, consoleVars, harnessVars>>

\* The end of the evaluation in between.
Evaluated(method, f, rate, value) ==
    /\ between' = [method |-> method, f |-> f, fs |-> rate, value |-> value]
    /\ pc' = "between"
    /\ UNCHANGED <<raised, filterVars, mainVars, call, H, H_again,
                   rippleVars, consoleVars, harnessVars>>

\* Another evaluation after the call: a method of the same object at any
\* frequency, or analyze_cascade.
EvaluateBetween ==
    /\ pc = "called"
    /\ \E f \in CallFrequencies(call.fs) :
          \/ /\ call.stage # "cascade"
             /\ \E method \in Methods :
                   Evaluated(method, f, call.fs,
                             Evaluation(method, call.stage, f, call.fs))
          \/ Evaluated("analyze_cascade", f, call.fs,
                       analyze_cascade(<<f>>, call.fs).value.mag_db)

\* The first call once more, with the same frequencies and fs.
CallAgain ==
    /\ pc = "between"
    /\ H_again' = Response(call.stage, call.f, call.fs)
    /\ pc' = "repeated"
    /\ UNCHANGED <<raised, filterVars, mainVars, call, H, between,
                   rippleVars, consoleVars, harnessVars>>

NextCalls ==
    \/ NewPreEmphasis
    \/ NewNotch
    \/ NewUpsampler
    \/ CallPreEmphasis
    \/ CallNotch
    \/ CallUpsampler
    \/ CallCascade
    \/ EvaluateBetween
    \/ CallAgain
    \/ SupplySeries
    \/ NotchSeries
    \/ ComputeRipple

SpecCalls == InitCalls /\ [][NextCalls]_vars

(***************************************************************************)
(* The serial console harnesses.  A text is a sequence of one-character    *)
(* strings; the literal pieces of a message that no code looks into are    *)
(* kept whole.                                                             *)
(***************************************************************************)
Whitespace == {" ", "\t", "\n", "\r"}

RECURSIVE lstrip(_)
lstrip(s) ==
    IF s # <<>> /\ Head(s) \in Whitespace THEN lstrip(Tail(s)) ELSE s

RECURSIVE rstrip(_)
rstrip(s) ==
    IF s # <<>> /\ s[Len(s)] \in Whitespace
    THEN rstrip(SubSeq(s, 1, Len(s) - 1))
    ELSE s

\* str.strip()
strip(s) == lstrip(rstrip(s))

\* str.startswith / str.endswith
startswith(s, prefix) ==
    Len(s) >= Len(prefix) /\ SubSeq(s, 1, Len(prefix)) = prefix

endswith(s, suffix) ==
    Len(s) >= Len(suffix) /\ SubSeq(s, Len(s) - Len(suffix) + 1, Len(s)) = suffix

\* re.IGNORECASE on the letters of the two patterns.
Upper(c) ==
    CASE c = "o" -> "O"
      [] c = "k" -> "K"
      [] c = "e" -> "E"
      [] c = "r" -> "R"
      [] OTHER -> c

StartsIgnoringCase(s, word) ==
    /\ Len(s) >= Len(word)
    /\ \A i \in 1..Len(word) : Upper(s[i]) = word[i]

\* The length of the run of whitespace (spaces = TRUE) or of other
\* characters (spaces = FALSE) that s begins with: \s* and \S*.
RECURSIVE RunLength(_, _)
RunLength(s, spaces) ==
    IF s # <<>> /\ ((Head(s) \in Whitespace) = spaces)
    THEN 1 + RunLength(Tail(s), spaces)
    ELSE 0

Drop(s, n) == SubSeq(s, n + 1, Len(s))

\* OK_RE = ^OK(?:\s+(.+))?$ matched at the start of a line that holds no
\* newline.  group1 is the text after the whitespace that follows OK, ""
\* when the group took no part (the code takes `group(1) or ""`).  When
\* only whitespace follows OK, \s+ gives its last character back to (.+).
OK_RE_match(line) ==
    LET rest  == Drop(line, 2)
        space == RunLength(rest, TRUE)
    IN  IF ~StartsIgnoringCase(line, <<"O", "K">>)
        THEN [matched |-> FALSE, group1 |-> <<>>]
        ELSE IF rest = <<>>
        THEN [matched |-> TRUE, group1 |-> <<>>]
        ELSE IF space = 0
        THEN [matched |-> FALSE, group1 |-> <<>>]
        ELSE IF space < Len(rest)
        THEN [matched |-> TRUE, group1 |-> Drop(rest, space)]
        ELSE IF space >= 2
        THEN [matched |-> TRUE, group1 |-> Drop(rest, space - 1)]
        ELSE [matched |-> FALSE, group1 |-> <<>>]

\* ERR_RE = ^ERR\s+(\S+)\s*(.*)$ : group1 is the code, group2 the message.
ERR_RE_match(line) ==
    LET rest  == Drop(line, 3)
        space == RunLength(rest, TRUE)
        tail  == Drop(rest, space)
        code  == RunLength(tail, FALSE)
        after == Drop(tail, code)
    IN  IF StartsIgnoringCase(line, <<"E", "R", "R">>) /\ space >= 1 /\ code >= 1
        THEN [matched |-> TRUE,
              group1 |-> SubSeq(tail, 1, code),
              group2 |-> lstrip(after)]
        ELSE [matched |-> FALSE, group1 |-> <<>>, group2 |-> <<>>]

\* " | ".join(parts)
RECURSIVE Join(_)
Join(parts) ==
    IF parts = <<>> THEN <<>>
    ELSE IF Len(parts) = 1 THEN parts[1]
    ELSE parts[1] \o <<" | ">> \o Join(Tail(parts))

\* The whole list instead of its last four entries.
lines_all(s) == s

\* lines[-4:]
LastFour(s) == SubSeq(s, Max2(1, Len(s) - 3), Len(s))

\* ConsoleClient.send: the bytes written for `line`.
ConsoleClient_send(line) ==
    IF ~endswith(line, <<"\n">>) THEN line \o <<"\n">> ELSE line

\* SerialConsoleTest.send_cmd and send_command: the shell runs
\* printf "{cmd}\r" > device, which writes cmd and a carriage return.
printf_send(cmd) == cmd \o <<"\r">>

\* The pyserial harnesses: ser.write((cmd + "\n").encode()).
serial_write(cmd) == cmd \o <<"\n">>

\* wait_ok_err = 2.0 s of readline calls that time out after 1.0 s each.
ReadsBeforeDeadline == 2

\* ConsoleClient.read_reply over `rx`, what the successive readline calls
\* return: a line as received, or <<>> for a readline that timed out (as
\* every readline does once rx is used up).  `left` counts the timeouts
\* left before the deadline, `seen` is the list `lines`.
RECURSIVE read_reply_loop(_, _, _)
read_reply_loop(rx, left, seen) ==
    IF left = 0
    THEN IF seen # <<>>
         THEN [ok |-> FALSE, lines |-> seen,
               data |-> <<"Timeout; seen: ">> \o Join(LastFour(seen))]
         ELSE [ok |-> FALSE, lines |-> seen, data |-> <<"Timeout; no response">>]
    ELSE IF rx = <<>> \/ Head(rx) = <<>>
    THEN read_reply_loop(IF rx = <<>> THEN rx ELSE Tail(rx), left - 1, seen)
    ELSE LET line  == strip(Head(rx))
             m_ok  == OK_RE_match(line)
             m_err == ERR_RE_match(line)
         IN  IF line = <<>>
             THEN read_reply_loop(Tail(rx), left, seen)
             ELSE IF startswith(line, <<"{">>) /\ endswith(line, <<"}">>)
             THEN [ok |-> TRUE, lines |-> seen, data |-> line]
             ELSE IF m_ok.matched
             THEN [ok |-> TRUE, lines |-> seen, data |-> m_ok.group1]
             ELSE IF m_err.matched
             THEN [ok |-> FALSE, lines |-> seen,
                   data |-> strip(m_err.group1 \o <<" ">> \o m_err.group2)]
             ELSE read_reply_loop(Tail(rx), left, Append(seen, line))

read_reply(rx) == read_reply_loop(rx, ReadsBeforeDeadline, <<>>)

(***************************************************************************)
(* The device end of the port.  A reply means success or failure; it is    *)
(* sent plain, as OK with optional data or ERR code message, or wrapped    *)
(* in a one-line JSON object that begins with {"ok", and ends with CR LF.  *)
(***************************************************************************)
Format(answer) ==
    IF answer.json
    THEN IF answer.kind = "success"
         THEN <<"{", "\"", "o", "k", "\"", ":", "t", "r", "u", "e", "}">>
         ELSE <<"{", "\"", "o", "k", "\"", ":", "f", "a", "l", "s", "e", "}">>
    ELSE IF answer.kind = "success"
    THEN <<"O", "K">> \o (IF answer.data = <<>> THEN <<>>
                          ELSE <<" ">> \o answer.data)
    ELSE <<"E", "R", "R", " ">> \o answer.code \o
             (IF answer.data = <<>> THEN <<>> ELSE <<" ">> \o answer.data)

Raw(line) == line \o <<"\r", "\n">>

Commands == {<<"a">>, <<"a", "\n">>, <<"a", " ", "1">>, <<>>}

Payloads == {<<>>, <<"1">>, <<"a", " ", "1">>}

Answers ==
    [kind : {"success"}, json : BOOLEAN, code : {<<>>}, data : Payloads]
        \cup
    [kind : {"failure"}, json : BOOLEAN, code : {<<"e">>}, data : Payloads]

\* What reaches the port before the reply: nothing, a blank line, a log
\* line, a readline that times out, or more log lines than the report of a
\* timeout keeps.
Preludes ==
    {<<>>, <<Raw(<<>>)>>, <<Raw(<<"a">>)>>, <<<<>>>>,
     <<Raw(<<"a">>), Raw(<<"1">>), Raw(<<"a">>), Raw(<<"1">>), Raw(<<"a">>)>>}

InitConsole ==
    /\ pc = "console"
    /\ fs = None /\ freq_sweep = None
    /\ Blank
    /\ NoHarness

\* The port after `bytes` were written for `cmd` by the sender `by`.
Written(by, cmd, bytes) ==
    [by |-> by, cmd |-> cmd, tx |-> bytes, rx |-> <<>>, answer |-> None]

\* ConsoleClient.send(line)
Send ==
    /\ pc = "console"
    /\ \E line \in Commands :
           port' = Written("ConsoleClient.send", line, ConsoleClient_send(line))
    /\ pc' = "sent"
    /\ UNCHANGED <<raised, filterVars, mainVars, callVars, rippleVars, lines,
                   reply, harnessVars>>

\* SerialConsoleTest.send_cmd(cmd)
SendCmd ==
    /\ pc = "console"
    /\ \E cmd \in Commands :
           port' = Written("SerialConsoleTest.send_cmd", cmd, printf_send(cmd))
    /\ pc' = "written"
    /\ UNCHANGED <<raised, filterVars, mainVars, callVars, rippleVars, lines,
                   reply, harnessVars>>

\* send_command(cmd) of Test/test_direct.py
SendCommand ==
    /\ pc = "console"
    /\ \E cmd \in Commands :
           port' = Written("send_command", cmd, printf_send(cmd))
    /\ pc' = "written"
    /\ UNCHANGED <<raised, filterVars, mainVars, callVars, rippleVars, lines,
                   reply, harnessVars>>

\* ser.write((cmd + "\n").encode()) of the pyserial harnesses
SerialWrite ==
    /\ pc = "console"
    /\ \E cmd \in Commands :
           port' = Written("ser.write", cmd, serial_write(cmd))
    /\ pc' = "written"
    /\ UNCHANGED <<raised, filterVars, mainVars, callVars, rippleVars, lines,
                   reply, harnessVars>>

\* The device replies to the command, after a prelude.
DeviceAnswers ==
    /\ pc = "sent"
    /\ \E answer \in Answers, prelude \in Preludes :
           port' = [port EXCEPT !.rx = prelude \o <<Raw(Format(answer))>>,
                                !.answer = answer]
    /\ pc' = "answered"
    /\ UNCHANGED <<raised, filterVars, mainVars, callVars, rippleVars, lines,
                   reply, harnessVars>>

\* The device stays silent, or only logs.
DeviceSilent ==
    /\ pc = "sent"
    /\ \E prelude \in Preludes : port' = [port EXCEPT !.rx = prelude]
    /\ pc' = "answered"
    /\ UNCHANGED <<raised, filterVars, mainVars, callVars, rippleVars, lines,
                   reply, harnessVars>>

\* ConsoleClient.read_reply()
ReadReply ==
    /\ pc = "answered"
    /\ LET r == read_reply(port.rx)
       IN  /\ reply' = [ok |-> r.ok, data |-> r.data]
           /\ lines' = r.lines
    /\ pc' = "replied"
    /\ UNCHANGED <<raised, filterVars, mainVars, callVars, rippleVars, port, harnessVars>>

NextConsole ==
    \/ Send
    \/ SendCmd
    \/ SendCommand
    \/ SerialWrite
    \/ DeviceAnswers
    \/ DeviceSilent
    \/ ReadReply

SpecConsole == InitConsole /\ [][NextConsole]_vars

(***************************************************************************)
(* The test harnesses that talk to the device through pyserial or through  *)
(* the shell.  The device end: to a command it was sent the device gives   *)
(* one reply, or none; a reply is a success or a failure, plain or wrapped *)
(* in JSON (the mode may have been left on by an earlier run), and it      *)
(* reaches the harness at once, late, or after the read has ended.         *)
(***************************************************************************)
\* str.lower() on the letters of the replies.
lower(s) ==
    [i \in 1..Len(s) |->
        CASE s[i] = "O" -> "o"
          [] s[i] = "K" -> "k"
          [] s[i] = "E" -> "e"
          [] s[i] = "R" -> "r"
          [] OTHER -> s[i]]

\* sub in s
\* A test at the start of the text only.
Contains_at_start(s, sub) == Len(sub) <= Len(s) /\ SubSeq(s, 1, Len(sub)) = sub

\* sub in s
Contains(s, sub) ==
    \E i \in 1..(Len(s) - Len(sub) + 1) : SubSeq(s, i, i + Len(sub) - 1) = sub

OkWord == <<"O", "K">>

ErrWord == <<"E", "R", "R">>

JsonOkKey == <<"{", "\"", "o", "k", "\"">>

\* The replies of the device: OK, OK 1, ERR e token, {"ok":true},
\* {"ok":false}.
DeviceReplies ==
    {[kind |-> a.kind, json |-> a.json, text |-> Format(a)] :
        a \in [kind : {"success"}, json : {FALSE}, code : {<<>>},
               data : {<<>>, <<"1">>}]
            \cup
              [kind : {"failure"}, json : {FALSE}, code : {<<"e">>},
               data : {<<"t", "o", "k", "e", "n">>}]
            \cup
              [kind : {"success", "failure"}, json : {TRUE}, code : {<<>>},
               data : {<<>>}]}

NoReply == [kind |-> "none", json |-> FALSE, text |-> <<>>]

\* The bytes of the reply to command k, as they travel.
Chunk(k, r) == [of |-> k, kind |-> r.kind, text |-> Raw(r.text)]

\* The replies that may be on their way at once.
MaxInFlight == 1

\* The text of the first n chunks of a stream, and the commands they
\* reply to.
RECURSIVE TextOf(_, _)
TextOf(stream, n) ==
    IF n = 0 THEN <<>> ELSE TextOf(stream, n - 1) \o stream[n].text

RepliedTo(stream, n) == {stream[i].of : i \in 1..n}

\* What the device has emitted once command k is written.
Stream(w, k, r) == IF r = NoReply THEN w ELSE Append(w, Chunk(k, r))

\* The ways a call of the transport fails: not at all, or with an
\* exception raised by the write or, the command written, by a read.
Failures == {"no", "write", "read"}

\* The test of the read loops for a complete response:
\* SerialConsoleTestor.send_command line 77, DeviceTester.send_cmd line 60.
Complete(h, response) ==
    IF h = "SerialConsoleTestor"
    THEN \/ Contains(response, <<"\n">>)
         \/ endswith(response, OkWord)
         \/ startswith(response, ErrWord)
    ELSE \/ endswith(strip(response), OkWord)
         \/ startswith(response, ErrWord)

\* The read loop of the two: every read takes what has arrived; after the
\* read that completes the response one more read takes what arrived
\* within 0.1 s (`trailing`).  `arrivals` is what arrives before the
\* timeout, `taken` counts the chunks read.
RECURSIVE ReadLoop(_, _, _, _, _)
ReadLoop(h, arrivals, response, taken, trailing) ==
    IF arrivals = <<>> THEN [response |-> response, taken |-> taken]
    ELSE LET r == response \o Head(arrivals).text
         IN  IF Complete(h, r)
             THEN IF trailing /\ Len(arrivals) >= 2
                  THEN [response |-> r \o arrivals[2].text,
                        taken |-> taken + 2]
                  ELSE [response |-> r, taken |-> taken + 1]
             ELSE ReadLoop(h, Tail(arrivals), r, taken + 1, trailing)

\* f"ERROR: {e}" and f"SERIAL_ERROR: {e}"
ErrorString(h) ==
    IF h = "CommandTester" THEN <<"SERIAL_ERROR: ", "e">>
    ELSE <<"ERROR: ", "e">>

\* The line terminator the harness writes after the command.
Terminator(h) ==
    IF h \in {"SerialConsoleTest", "test_direct"} THEN "\r" ELSE "\n"

\* What a send returns and leaves behind: the string returned, the
\* commands whose reply bytes are in it, whether the command was written,
\* the reply the device gave to it, what is still on the wire and how the
\* transport fared: "up", "failed" (an exception was caught) or "closed"
\* (there was no connection).
Sent(returned, of, written, r, w, transport) ==
    [returned |-> returned, of |-> of, written |-> written,
     reply |-> IF written THEN r.kind ELSE "none", wire |-> w,
     transport |-> transport]

\* A send without the test for a connection: the failure of the write is
\* caught and reported.
send_unguarded(h, conn, w, k, env) ==
    Sent(ErrorString(h), {}, FALSE, NoReply, w,
         IF conn = None THEN "closed" ELSE "failed")

\* SerialConsoleTestor.send_command and DeviceTester.send_cmd for the k-th
\* command, with w on the wire: the input buffer is reset (what arrived by
\* then, env.dropped chunks, is lost), the command is written and the read
\* loop runs over what arrives before the timeout (env.arrived chunks).
reset_and_read(h, conn, w, k, env) ==
    LET stream  == Stream(w, k, env.reply)
        rest    == SubSeq(stream, env.dropped + 1, Len(stream))
        loop    == ReadLoop(h, SubSeq(rest, 1, env.arrived), <<>>, 0,
                            env.trailing)
    IN  IF conn = None THEN Sent(<<>>, {}, FALSE, NoReply, w, "closed")
        ELSE IF env.fails = "write"
        THEN Sent(ErrorString(h), {}, FALSE, NoReply, w, "failed")
        ELSE IF env.fails = "read"
        THEN Sent(ErrorString(h), {}, TRUE, env.reply, rest, "failed")
        ELSE Sent(strip(loop.response), RepliedTo(rest, loop.taken), TRUE,
                  env.reply, SubSeq(rest, loop.taken + 1, Len(rest)), "up")

\* CommandTester.send_command, SerialConsoleTest.send_cmd and send_command
\* of test_direct.py: the command is written, the harness waits and then
\* reads what has arrived (env.arrived chunks); nothing is dropped.
write_and_read(h, conn, w, k, env) ==
    LET stream == Stream(w, k, env.reply)
    IN  IF h = "CommandTester" /\ conn = None
        THEN Sent(ErrorString(h), {}, FALSE, NoReply, w, "closed")
        ELSE IF env.fails = "write"
        THEN Sent(ErrorString(h), {}, FALSE, NoReply, w, "failed")
        ELSE IF env.fails = "read"
        THEN Sent(ErrorString(h), {}, TRUE, env.reply, stream, "failed")
        ELSE Sent(strip(TextOf(stream, env.arrived)),
                  RepliedTo(stream, env.arrived), TRUE, env.reply,
                  SubSeq(stream, env.arrived + 1, Len(stream)), "up")

\* The send function of harness h.
send_command(h, conn, w, k, env) ==
    IF h \in {"SerialConsoleTestor", "DeviceTester"}
    THEN reset_and_read(h, conn, w, k, env)
    ELSE write_and_read(h, conn, w, k, env)

\* What may happen around the k-th command with w on the wire.
Environments(w) ==
    {env \in [fails : Failures, reply : DeviceReplies \cup {NoReply},
              dropped : 0..Len(w), arrived : 0..(Len(w) + 1),
              trailing : BOOLEAN] :
        /\ env.fails # "no" =>
              env.arrived = 0 /\ ~env.trailing /\ env.dropped = 0
        /\ env.fails = "write" => env.reply = NoReply
        /\ env.dropped + env.arrived
              <= Len(w) + (IF env.reply = NoReply THEN 0 ELSE 1)}

\* The commands of the runs and the patterns looked for in the responses.
Commands2 == {"RDS:PTY 10"}

Queries == {"RDS:PTY?"}

Patterns == {OkWord, <<"1">>}

\* The calls of a harness that are followed.
MaxCalls == 2

Harnesses ==
    {"SerialConsoleTestor", "DeviceTester", "CommandTester",
     "SerialConsoleTest"}

otherVars ==
    <<raised, filterVars, mainVars, callVars, rippleVars, consoleVars>>

\* An open pyserial port.
OpenPort == [is_open |-> TRUE, closes |-> 0]

InitHarness ==
    /\ pc = "harness"
    /\ fs = None /\ freq_sweep = None
    /\ Blank
    /\ harness \in Harnesses
    /\ ser \in IF harness = "SerialConsoleTest" THEN {None}
               ELSE {None, OpenPort}
    /\ wire = <<>>
    /\ sent = <<>>
    /\ outcome = None
    /\ results = <<>>
    /\ command_count = 0
    /\ step = 0
    /\ exit_status = None

\* The log of commands after a send of cmd by harness h that returned r.
Log(h, cmd, r) ==
    IF r.written THEN Append(sent, [cmd |-> cmd, end |-> Terminator(h)])
    ELSE sent

\* What is kept of a send: the command, its number, the response returned
\* and, for the properties, the commands whose reply bytes are in it and
\* the reply the device gave.
Call(cmd, k, r) ==
    [cmd |-> cmd, k |-> k, response |-> r.returned, of |-> r.of,
     written |-> r.written, reply |-> r.reply, transport |-> r.transport]

\* What is kept of a call of the harness: its name, the sends it made and
\* what it returned.
Outcome(op, calls, returned) ==
    [op |-> op, calls |-> calls, returned |-> returned]

\* response[:n]
Truncated(s, n) == SubSeq(s, 1, IF Len(s) < n THEN Len(s) ELSE n)

\* SerialConsoleTestor.send_command(cmd), as main calls it
Testor_send_command ==
    /\ pc = "harness" /\ harness = "SerialConsoleTestor"
    /\ step < MaxCalls
    /\ step' = step + 1
    /\ \E cmd \in Commands2, env \in Environments(wire) :
         LET k == Len(sent) + 1
             r == send_command(harness, ser, wire, k, env)
         IN  /\ Len(r.wire) <= MaxInFlight
             /\ wire' = r.wire
             /\ sent' = Log(harness, cmd, r)
             /\ outcome' = Outcome("send_command", <<Call(cmd, k, r)>>,
                                   r.returned)
    /\ UNCHANGED <<pc, otherVars, harness, ser, results, command_count,
                   exit_status>>

\* SerialConsoleTestor.test_command(name, cmd, expected_pattern)
Testor_test_command ==
    /\ pc = "harness" /\ harness = "SerialConsoleTestor"
    /\ step < MaxCalls
    /\ step' = step + 1
    /\ \E cmd \in Commands2, expected_pattern \in Patterns,
          env \in Environments(wire) :
         LET k      == Len(sent) + 1
             r      == send_command(harness, ser, wire, k, env)
             passed == Contains(lower(r.returned), lower(expected_pattern))
             status == IF passed THEN "PASS" ELSE "FAIL"
             result == [command |-> cmd,
                        expected_pattern |-> expected_pattern,
                        actual_response |-> Truncated(r.returned, 100),
                        status |-> status, reply |-> r.reply]
         IN  /\ Len(r.wire) <= MaxInFlight
             /\ wire' = r.wire
             /\ sent' = Log(harness, cmd, r)
             /\ results' = Append(results, result)
             /\ outcome' = Outcome("test_command", <<Call(cmd, k, r)>>,
                                   result)
    /\ UNCHANGED <<pc, otherVars, harness, ser, command_count,
                   exit_status>>

\* DeviceTester.test(name, cmd, expected); expected is None when not given
DeviceTester_test ==
    /\ pc = "harness" /\ harness = "DeviceTester"
    /\ step < MaxCalls
    /\ step' = step + 1
    /\ \E cmd \in Commands2, expected \in Patterns, given \in BOOLEAN,
          env \in Environments(wire) :
         LET k      == Len(sent) + 1
             r      == send_command(harness, ser, wire, k, env)
             passed == IF ~given
                       THEN ~startswith(r.returned, ErrWord)
                                /\ r.returned # <<>>
                       ELSE Contains(lower(r.returned), lower(expected))
         IN  /\ Len(r.wire) <= MaxInFlight
             /\ wire' = r.wire
             /\ sent' = Log(harness, cmd, r)
             /\ results' = Append(results,
                               [command |-> cmd,
                                expected |-> IF given THEN expected ELSE <<>>,
                                given |-> given,
                                passed |-> passed, reply |-> r.reply])
             /\ outcome' = Outcome("test", <<Call(cmd, k, r)>>, passed)
    /\ UNCHANGED <<pc, otherVars, harness, ser, command_count,
                   exit_status>>

\* SerialConsoleTest.test(name, cmd, expected)
SerialConsoleTest_test ==
    /\ pc = "harness" /\ harness = "SerialConsoleTest"
    /\ step < MaxCalls
    /\ step' = step + 1
    /\ \E cmd \in Commands2, expected \in Patterns,
          env \in Environments(wire) :
         LET k      == Len(sent) + 1
             r      == send_command(harness, ser, wire, k, env)
             passed == Contains(lower(r.returned), lower(expected))
         IN  /\ Len(r.wire) <= MaxInFlight
             /\ wire' = r.wire
             /\ sent' = Log(harness, cmd, r)
             /\ results' = Append(results,
                               [command |-> cmd, expected |-> expected,
                                given |-> TRUE,
                                passed |-> passed, reply |-> r.reply])
             /\ outcome' = Outcome("test", <<Call(cmd, k, r)>>, passed)
    /\ UNCHANGED <<pc, otherVars, harness, ser, command_count,
                   exit_status>>

\* DeviceTester.test_set_get(name, set_cmd, get_cmd, expected_value)
DeviceTester_test_set_get ==
    /\ pc = "harness" /\ harness = "DeviceTester"
    /\ step < MaxCalls
    /\ step' = step + 1
    /\ \E set_cmd \in Commands2, get_cmd \in Queries,
          expected_value \in Patterns, env1 \in Environments(wire) :
         LET k  == Len(sent) + 1
             r1 == send_command(harness, ser, wire, k, env1)
             l1 == Log(harness, set_cmd, r1)
         IN  IF ~startswith(r1.returned, OkWord)
             THEN /\ Len(r1.wire) <= MaxInFlight
                  /\ wire' = r1.wire
                  /\ sent' = l1
                  /\ results' = Append(results,
                                    [command |-> set_cmd, given |-> FALSE,
                                     expected |-> <<>>, passed |-> FALSE,
                                     reply |-> r1.reply])
                  /\ outcome' = Outcome("test_set_get",
                                        <<Call(set_cmd, k, r1)>>, FALSE)
             ELSE \E env2 \in Environments(r1.wire) :
                    LET k2     == Len(l1) + 1
                        r2     == send_command(harness, ser, r1.wire, k2, env2)
                        passed == Contains(lower(r2.returned),
                                           lower(expected_value))
                    IN  /\ Len(r2.wire) <= MaxInFlight
                        /\ wire' = r2.wire
                        /\ sent' = IF r2.written
                                   THEN Append(l1, [cmd |-> get_cmd,
                                                    end |-> Terminator(harness)])
                                   ELSE l1
                        /\ results' = Append(results,
                                          [command |-> get_cmd,
                                           given |-> FALSE,
                                           expected |-> expected_value,
                                           passed |-> passed,
                                           reply |-> r2.reply])
                        /\ outcome' = Outcome("test_set_get",
                                              <<Call(set_cmd, k, r1),
                                                Call(get_cmd, k2, r2)>>,
                                              passed)
    /\ UNCHANGED <<pc, otherVars, harness, ser, command_count, exit_status>>

\* The responses CommandTester takes for a success: OK ... or {"ok" ...
AcceptedAsOk(resp) == startswith(resp, OkWord) \/ startswith(resp, JsonOkKey)

\* CommandTester.test_set_get(set_cmd, get_cmd, expected_pattern); the
\* pattern is None when not given
CommandTester_test_set_get ==
    /\ pc = "harness" /\ harness = "CommandTester"
    /\ step < MaxCalls
    /\ step' = step + 1
    /\ \E set_cmd \in Commands2, get_cmd \in Queries,
          expected_pattern \in Patterns, given \in BOOLEAN,
          env1 \in Environments(wire) :
         LET k  == Len(sent) + 1
             r1 == send_command(harness, ser, wire, k, env1)
             l1 == Log(harness, set_cmd, r1)
         IN  IF ~AcceptedAsOk(r1.returned)
             THEN /\ Len(r1.wire) <= MaxInFlight
                  /\ wire' = r1.wire
                  /\ sent' = l1
                  /\ command_count' = command_count + 1
                  /\ results' = Append(results,
                                    [name |-> "SET/GET", passed |-> FALSE,
                                     error |-> "SET failed"])
                  /\ outcome' = Outcome("test_set_get",
                                        <<Call(set_cmd, k, r1)>>, FALSE)
             ELSE \E env2 \in Environments(r1.wire) :
                    LET k2    == Len(l1) + 1
                        r2    == send_command(harness, ser, r1.wire, k2, env2)
                        error == IF ~AcceptedAsOk(r2.returned)
                                 THEN "GET failed"
                                 ELSE IF given /\ expected_pattern # <<>>
                                         /\ ~Contains(r2.returned,
                                                      expected_pattern)
                                 THEN "Pattern not found"
                                 ELSE "None"
                    IN  /\ Len(r2.wire) <= MaxInFlight
                        /\ wire' = r2.wire
                        /\ sent' = IF r2.written
                                   THEN Append(l1, [cmd |-> get_cmd,
                                                    end |-> Terminator(harness)])
                                   ELSE l1
                        /\ command_count' = command_count + 2
                        /\ results' = Append(results,
                                          [name |-> "SET/GET",
                                           passed |-> error = "None",
                                           error |-> error])
                        /\ outcome' = Outcome("test_set_get",
                                              <<Call(set_cmd, k, r1),
                                                Call(get_cmd, k2, r2)>>,
                                              error = "None")
    /\ UNCHANGED <<pc, otherVars, harness, ser, exit_status>>

\* SerialConsoleTestor.print_summary: the counts it prints.
Testor_print_summary(rs) ==
    LET count(status) == Cardinality({i \in 1..Len(rs) : rs[i].status = status})
    IN  [passed |-> count("PASS"), failed |-> count("FAIL"),
         partial |-> count("PARTIAL"), timeout |-> count("TIMEOUT"),
         total |-> Len(rs)]

NextHarness ==
    \/ Testor_send_command
    \/ Testor_test_command
    \/ DeviceTester_test
    \/ DeviceTester_test_set_get
    \/ CommandTester_test_set_get
    \/ SerialConsoleTest_test

SpecHarness == InitHarness /\ [][NextHarness]_vars

(***************************************************************************)
(* The runs of the harnesses: main opens the port, runs the test body      *)
(* inside try, closes the port in finally and ends with an exit status.    *)
(* The bodies are the sources' lists of checks, one check kept of every    *)
(* run of like ones.  Every response is the reply to its own command.      *)
(***************************************************************************)
\* A step of a body: the function called, the command and, for set/get,
\* the query.
Do(op, cmd, get) == [op |-> op, cmd |-> cmd, get |-> get]

JsonOn == "SYST:COMM:JSON ON"

JsonOff == "SYST:COMM:JSON OFF"

\* The JSON section of run_all_tests without the second test_set_get.
json_section_left_on ==
    <<Do("test_set_get", JsonOn, "SYST:COMM:JSON?")>>

\* CommandTester.run_all_tests, test 18
json_section ==
    <<Do("test_set_get", JsonOn, "SYST:COMM:JSON?"),
      Do("test_set_get", JsonOff, "SYST:COMM:JSON?")>>

\* CommandTester.run_all_tests
run_all_tests ==
    <<Do("send_command", "SYST:REBOOT", ""),
      Do("reset_input_buffer", "", ""),
      Do("test_get_only", "SYST:HEAP?", "")>>
        \o json_section \o
    <<Do("test_consistency_sequence", "RDS:PTY i", ""),
      Do("test_error_case", "RDS:PI", "")>>

\* the try block of main of tools/console_tester.py, without and with --json
console_tester_body(json) ==
    <<Do("expect_get", "SYST:VERSION?", ""),
      Do("expect_ok", "SYST:LOG:LEVEL OFF", "")>>
        \o
    IF json
    THEN <<Do("expect_ok", JsonOn, ""),
           Do("send_read_reply", "RDS:PTY?", ""),
           Do("expect_ok", JsonOff, "")>>
    ELSE <<>>

\* the try block of main of Test/real_device_test.py
DeviceTester_body ==
    <<Do("test", "SYST:LOG:LEVEL OFF", ""), Do("test", "SYST:STATUS?", "")>>

\* the try block of main of test_serial_console.py
Testor_body ==
    <<Do("send_command", "SYST:LOG:LEVEL OFF", ""),
      Do("test_command", "SYST:CONF:LIST?", "")>>

\* the module body of Test/test_direct.py
test_direct_body ==
    <<Do("test_cmd", "SYST:STATUS?", ""), Do("test_cmd", "SYST:VERSION?", "")>>

Mains ==
    {"console_tester", "console_tester --json", "CommandTester",
     "DeviceTester", "SerialConsoleTestor", "test_direct"}

Body(h) ==
    CASE h = "console_tester"        -> console_tester_body(FALSE)
      [] h = "console_tester --json" -> console_tester_body(TRUE)
      [] h = "CommandTester"         -> run_all_tests
      [] h = "DeviceTester"          -> DeviceTester_body
      [] h = "SerialConsoleTestor"   -> Testor_body
      [] OTHER                       -> test_direct_body

\* The commands of test_consistency_sequence that are followed (of its 20).
Rounds == 2

\* The string a send of the pyserial and shell harnesses returns for the
\* reply r, and what send and read_reply of ConsoleClient return for it.
Responded(r) == IF r = NoReply THEN <<>> ELSE strip(Raw(r.text))

Replied(r) == read_reply(IF r = NoReply THEN <<>> ELSE <<Raw(r.text)>>)

\* A command sent and the test its response is put to.
Entry(cmd, check) == [cmd |-> cmd, check |-> check]

Result(passed) == [passed |-> passed]

Ran(entries, rs) == [sent |-> entries, results |-> rs]

\* CommandTester.test_set_get(set_cmd, get_cmd) with replies r1 and r2
run_test_set_get(st, r1, r2) ==
    IF ~AcceptedAsOk(Responded(r1))
    THEN Ran(<<Entry(st.cmd, "OK or JSON")>>, <<Result(FALSE)>>)
    ELSE Ran(<<Entry(st.cmd, "OK or JSON"), Entry(st.get, "OK or JSON")>>,
             <<Result(AcceptedAsOk(Responded(r2)))>>)

\* CommandTester.test_consistency_sequence with the replies rs
run_test_consistency_sequence(st, rs) ==
    Ran([i \in 1..Len(rs) |-> Entry(st.cmd, "OK")],
        <<Result(\A i \in 1..Len(rs) : startswith(Responded(rs[i]), OkWord))>>)

\* One step of a body with the replies of the device.
RunStep(st, r1, r2, rs) ==
    CASE st.op = "send_command" -> Ran(<<Entry(st.cmd, "none")>>, <<>>)
      [] st.op = "reset_input_buffer" -> Ran(<<>>, <<>>)
      [] st.op = "test_get_only" ->
            Ran(<<Entry(st.cmd, "OK")>>,
                <<Result(startswith(Responded(r1), OkWord))>>)
      [] st.op = "test_error_case" ->
            Ran(<<Entry(st.cmd, "ERR")>>,
                <<Result(startswith(Responded(r1), ErrWord))>>)
      [] st.op = "test_set_get" -> run_test_set_get(st, r1, r2)
      [] st.op = "test_consistency_sequence" ->
            run_test_consistency_sequence(st, rs)
      [] st.op \in {"test", "test_command", "test_cmd"} ->
            Ran(<<Entry(st.cmd, "OK in response")>>,
                <<Result(Contains(lower(Responded(r1)), lower(OkWord)))>>)
      [] st.op \in {"expect_ok", "expect_get"} ->
            Ran(<<Entry(st.cmd, "read_reply")>>, <<Result(Replied(r1).ok)>>)
      [] OTHER ->
            Ran(<<Entry(st.cmd, "read_reply")>>,
                <<Result(Replied(r1).ok
                            /\ startswith(Replied(r1).data, <<"{">>))>>)

\* print_summary and the summaries of main: passed == total
AllPassed(rs) == \A i \in 1..Len(rs) : rs[i].passed

\* The exit status after a body that completed: sys.exit(0 if passed ==
\* total else 1) in console_tester and test_direct, return 0 if success
\* else 1 in DeviceTester, return 0 in CommandTester, and the end of the
\* script in SerialConsoleTestor.
ExitStatus(h, rs) ==
    IF h \in {"CommandTester", "SerialConsoleTestor"} THEN 0
    ELSE IF AllPassed(rs) THEN 0 ELSE 1

\* The run: whether the body was entered, whether an exception left it.
Started == [entered |-> FALSE, raised |-> FALSE]

InitRun ==
    /\ pc = "main"
    /\ fs = None /\ freq_sweep = None
    /\ Blank
    /\ harness \in Mains
    /\ ser = None
    /\ wire = <<>>
    /\ sent = <<>>
    /\ outcome = Started
    /\ results = <<>>
    /\ command_count = 0
    /\ step = 1
    /\ exit_status = None

\* connect() returns True, ConsoleClient(port, baud) returns; test_direct
\* opens no port.
Connect ==
    /\ pc = "main"
    /\ ser' = IF harness = "test_direct" THEN None ELSE OpenPort
    /\ outcome' = [outcome EXCEPT !.entered = TRUE]
    /\ pc' = "body"
    /\ UNCHANGED <<otherVars, harness, wire, sent, results, command_count,
                   step, exit_status>>

\* The port cannot be opened, or fails while it settles: connect() returns
\* False and main ends with status 1; the exception of ConsoleClient(...)
\* ends the interpreter with status 1.
ConnectFails ==
    /\ pc = "main" /\ harness # "test_direct"
    /\ \E opened \in BOOLEAN :
          ser' = IF opened THEN OpenPort ELSE None
    /\ exit_status' = 1
    /\ pc' = "exited"
    /\ UNCHANGED <<otherVars, harness, wire, sent, outcome, results,
                   command_count, step>>

\* The next step of the body.
BodyStep ==
    /\ pc = "body" /\ step <= Len(Body(harness))
    /\ LET st == Body(harness)[step]
       IN  \E r1, r2 \in DeviceReplies \cup {NoReply},
              rs \in IF st.op = "test_consistency_sequence"
                     THEN [1..Rounds -> DeviceReplies \cup {NoReply}]
                     ELSE {<<>>} :
             LET ran == RunStep(st, r1, r2, rs)
             IN  /\ sent' = sent \o ran.sent
                 /\ results' = results \o ran.results
    /\ step' = step + 1
    /\ UNCHANGED <<pc, otherVars, harness, ser, wire, outcome, command_count,
                   exit_status>>

\* An exception leaves the body: a port call outside a send function
\* (cli.send, readline, reset_input_buffer) raises, or the run is
\* interrupted.
BodyRaises ==
    /\ pc = "body" /\ step <= Len(Body(harness))
    /\ outcome' = [outcome EXCEPT !.raised = TRUE]
    /\ pc' = "finally"
    /\ UNCHANGED <<otherVars, harness, ser, wire, sent, results,
                   command_count, step, exit_status>>

\* The body is through.
BodyEnds ==
    /\ pc = "body" /\ step > Len(Body(harness))
    /\ pc' = "finally"
    /\ UNCHANGED <<otherVars, harnessVars>>

\* ser.close() of pyserial
Serial_close(conn) == [is_open |-> FALSE, closes |-> conn.closes + 1]

\* A close that is reached only when the body completed.
close_unless_raised ==
    /\ pc = "finally"
    /\ ser' = IF ser = None \/ outcome.raised THEN ser ELSE Serial_close(ser)
    /\ pc' = "closed"
    /\ UNCHANGED <<otherVars, harness, wire, sent, outcome, results,
                   command_count, step, exit_status>>

\* finally: cli.close() / tester.disconnect(); test_direct has none.
Finally ==
    /\ pc = "finally"
    /\ ser' = IF ser = None THEN ser ELSE Serial_close(ser)
    /\ pc' = "closed"
    /\ UNCHANGED <<otherVars, harness, wire, sent, outcome, results,
                   command_count, step, exit_status>>

\* The end of the run: the status of the summary, or 1 for the exception
\* that left the body.
Exit ==
    /\ pc = "closed"
    /\ exit_status' = IF outcome.raised THEN 1
                      ELSE ExitStatus(harness, results)
    /\ pc' = "exited"
    /\ UNCHANGED <<otherVars, harness, ser, wire, sent, outcome, results,
                   command_count, step>>

NextRun ==
    \/ Connect
    \/ ConnectFails
    \/ BodyStep
    \/ BodyRaises
    \/ BodyEnds
    \/ Finally
    \/ Exit

SpecRun == InitRun /\ [][NextRun]_vars

(***************************************************************************)
(* PROPERTIES                                                              *)
(***************************************************************************)

C2_RippleIsSpreadAndNonNegative ==
    (pc = "computed" /\ report # None) =>
        LET sel == {mag_db[i] : i \in {j \in 1..Len(frequencies) :
                       /\ passband_limits[1] <= frequencies[j]
                       /\ frequencies[j] <= passband_limits[2]}}
        IN  /\ report.mag_max_db \in sel
            /\ report.mag_min_db \in sel
            /\ \A x \in sel : report.mag_min_db <= x /\ x <= report.mag_max_db
            /\ report.ripple_db = FSub(report.mag_max_db, report.mag_min_db)
            /\ FGe(report.ripple_db, 0)

\* C3: the selection is exactly the grid points with f_min <= f <= f_max,
\* both limits included: the report's frequencies and magnitudes are those
\* points', its max and min are taken over them, and another magnitude at a
\* grid point outside the band leaves the whole report as it is.
\* (SpecRipple)
C3_InclusiveSelection ==
    (pc = "computed" /\ report # None) =>
        LET InBand(f) == passband_limits[1] <= f /\ f <= passband_limits[2]
            inside    == {i \in 1..Len(frequencies) : InBand(frequencies[i])}
            outside   == (1..Len(frequencies)) \ inside
        IN  /\ report.passband_freqs = SelectSeq(frequencies, InBand)
            /\ Len(report.passband_mag_db) = Cardinality(inside)
            /\ {report.passband_mag_db[j] : j \in 1..Len(report.passband_mag_db)}
                   = {mag_db[i] : i \in inside}
            /\ \A i \in inside : /\ mag_db[i] <= report.mag_max_db
                                 /\ mag_db[i] >= report.mag_min_db
            /\ \A i \in outside : \A v \in Levels \cup {NegInf} :
                   compute_passband_ripple(
                       [mag_db EXCEPT ![i] = v], frequencies, passband_limits)
                   = Returned(report)

\* A report over a grid with a point on each limit of the passband, both
\* taking part (the maximum on one, the minimum on the other), and a point
\* outside whose magnitude exceeds the reported maximum.
C3_LimitsSelected ==
    /\ pc = "computed"
    /\ report # None
    /\ \E i, j, k \in 1..Len(frequencies) :
          /\ frequencies[i] = passband_limits[1]
          /\ frequencies[j] = passband_limits[2]
          /\ mag_db[i] = report.mag_max_db
          /\ mag_db[j] = report.mag_min_db
          /\ mag_db[i] > mag_db[j]
          /\ frequencies[k] < passband_limits[1]
          /\ mag_db[k] > report.mag_max_db

\* C4: at every grid point i, H_total[i] is the complex product
\* H1[i] * H2[i] * H3[i] of the responses of the pre-emphasis, the notch and
\* the upsampler at that grid point; mag_linear[i] is the product of the
\* three magnitudes (within 0.0032, the fixed point's resolution of the
\* product), and the direction of H_total[i] is the product of the three
\* directions, that is, its phase is the sum of the phases modulo 2*pi
\* (within 0.0008, where every magnitude is at least 0.25).  (Spec)
C4_CascadeIsPointwiseProduct ==
    (pc \in {"cascade_analyzed", "rated", "ranked"}) =>
        LET r       == result_sweep
            Unit(z) == Cx(DivFx(z.re, CAbs(z)), DivFx(z.im, CAbs(z)))
            Near(z, w, tol) == /\ Abs(z.re - w.re) <= tol
                               /\ Abs(z.im - w.im) <= tol
        IN  /\ Len(r.H_total) = Len(freq_sweep)
            /\ pc = "cascade_analyzed" =>
                 /\ r.H1 = PreEmphasisFilter_frequency_response(
                               preemph, freq_sweep, fs)
                 /\ r.H2 = NotchFilter_frequency_response(notch, freq_sweep, fs)
                 /\ r.H3 = PolyphaseFIRUpsampler_frequency_response(
                               upsampler, freq_sweep, fs)
            /\ \A i \in 1..Len(freq_sweep) :
                 /\ r.H_total[i] = CMul(CMul(r.H1[i], r.H2[i]), r.H3[i])
                 /\ Near(r.H_total[i], CMul(r.H1[i], CMul(r.H2[i], r.H3[i])), 32)
                 /\ r.mag_linear[i] = CAbs(r.H_total[i])
                 /\ Abs(r.mag_linear[i]
                        - MulFx(MulFx(CAbs(r.H1[i]), CAbs(r.H2[i])),
                                CAbs(r.H3[i]))) <= 32
                 /\ (/\ CAbs(r.H1[i]) >= 2500 /\ CAbs(r.H2[i]) >= 2500
                     /\ CAbs(r.H3[i]) >= 2500 /\ CAbs(r.H_total[i]) >= 2500)
                    => Near(Unit(r.H_total[i]),
                            CMul(CMul(Unit(r.H1[i]), Unit(r.H2[i])),
                                 Unit(r.H3[i])), 8)

\* The cascade has been analysed over a sweep with a point where the notch
\* turns the phase and lowers the gain (18 kHz at 48 kHz), and the product
\* there is not that of the other two stages alone.
C4_NotchTakesPart ==
    /\ pc = "cascade_analyzed"
    /\ \E i \in 1..Len(freq_sweep) :
          /\ result_sweep.H2[i].im # 0
          /\ CAbs(result_sweep.H2[i]) < One
          /\ result_sweep.H_total[i]
                 # CMul(result_sweep.H1[i], result_sweep.H3[i])
          /\ result_sweep.H_total[i] # CZero

\* C5: the ranking lists the three stages by non-increasing ripple_db, each
\* stage's ripple computed from its own magnitude series over the same
\* passband, and the stage listed first, the PRIMARY LIMITER, has a ripple
\* at least that of every other stage.  (Spec)
C5_RankingNonIncreasing ==
    pc = "ranked" =>
        /\ {ripples[p] : p \in 1..3}
               = {<<ripple1.ripple_db, "Pre-emphasis filter">>,
                  <<ripple2.ripple_db, "Notch filter">>,
                  <<ripple3.ripple_db, "Upsampler FIR">>}
        /\ ripple1.passband_freqs = ripple2.passband_freqs
        /\ ripple2.passband_freqs = ripple3.passband_freqs
        /\ \A p \in 1..2 : FGe(ripples[p][1], ripples[p + 1][1])
        /\ \A rep \in {ripple1, ripple2, ripple3} :
               FGe(ripples[1][1], rep.ripple_db)

\* A ranking of three different ripples.
C5_DistinctRipplesRanked ==
    /\ pc = "ranked"
    /\ ripples[1][1] > ripples[2][1]
    /\ ripples[2][1] > ripples[3][1]
    /\ ripples[1][2] = "Pre-emphasis filter"

\* C6: stages of equal ripple_db are ranked in the order of the chain,
\* Pre-emphasis, then Notch, then Upsampler, so that of the stages with the
\* largest ripple the earliest is the PRIMARY LIMITER.  (Spec)
C6_TiesKeepStageOrder ==
    pc = "ranked" =>
        LET Stage(label) ==
                CASE label = "Pre-emphasis filter" -> 1
                  [] label = "Notch filter" -> 2
                  [] label = "Upsampler FIR" -> 3
        IN  \A p, q \in 1..3 :
                (p < q /\ ripples[p][1] = ripples[q][1])
                    => Stage(ripples[p][2]) < Stage(ripples[q][2])

\* C7: with no grid point in [f_min, f_max] the computation fails (np.max
\* of the empty selection raises ValueError, the code's InvalidRange) and
\* there is no report; a report is never made of an empty selection.
\* (SpecRipple)
C7_EmptySelectionFails ==
    pc = "computed" =>
        LET inside == {i \in 1..Len(frequencies) :
                          /\ passband_limits[1] <= frequencies[i]
                          /\ frequencies[i] <= passband_limits[2]}
        IN  /\ inside = {} => (raised = "ValueError" /\ report = None)
            /\ report # None => (/\ inside # {}
                                 /\ Len(report.passband_freqs) >= 1
                                 /\ Len(report.passband_mag_db) >= 1)

\* The computation has failed on a grid with points below and above the
\* passband and none in it.
C7_EmptySelectionRaised ==
    /\ pc = "computed"
    /\ raised = "ValueError"
    /\ report = None
    /\ \E i, j \in 1..Len(frequencies) :
          /\ frequencies[i] < passband_limits[1]
          /\ frequencies[j] > passband_limits[2]

\* C8: a magnitude of exactly zero is clamped to a finite floor before the
\* logarithm, so every value of a stage's magnitude_db and every field of
\* a ripple report is finite.  (SpecRipple)
C8_LevelsAreFinite ==
    /\ pc \in {"supplied", "computed"} =>
          \A i \in 1..Len(mag_db) : IsFinite(mag_db[i])
    /\ report # None =>
          /\ IsFinite(report.ripple_db)
          /\ IsFinite(report.mag_max_db)
          /\ IsFinite(report.mag_min_db)
          /\ IsFinite(report.mag_mean_db)
          /\ IsFinite(report.mag_std_db)
          /\ \A j \in 1..Len(report.passband_mag_db) :
                 IsFinite(report.passband_mag_db[j])

\* C9: a construction with parameters out of their domain (notch: Q <= 0
\* or f_notch outside (0, fs/2); upsampler: L < 2, num_taps < 1 or cutoff
\* outside (0, fs_out/2)) fails, so no filter object with such parameters
\* ever exists.  (SpecFilters)
C9_NoFilterWithInvalidParameters ==
    /\ notch # None =>
          /\ notch.Q > 0
          /\ 0 < notch.f_notch
          /\ 2 * notch.f_notch < notch.fs
    /\ upsampler # None =>
          /\ upsampler.L >= 2
          /\ upsampler.num_taps >= 1
          /\ 0 < upsampler.cutoff_hz
          /\ 2 * upsampler.cutoff_hz < upsampler.fs_out

\* C10: frequency_response at a frequency outside [0, fs/2] fails instead
\* of returning a gain for it.  (SpecFilters)
C10_OutOfRangeFrequencyFails ==
    (pc = "called" /\ (call.f < 0 \/ 2 * call.f > call.fs)) =>
        (raised # "none" /\ H = None)

\* C11: the frequencies reported for the passband maximum and minimum are
\* the first grid points inside the passband where the passband maximum
\* and minimum are attained: the magnitude at the reported frequency is
\* mag_max_db (mag_min_db), also on a grid with points outside the
\* passband.  (Spec)
C11_ReportedFrequenciesAttainExtremes ==
    LET InBand(i) == /\ DefaultPassband[1] <= freq_sweep[i]
                     /\ freq_sweep[i] <= DefaultPassband[2]
        FirstAt(f, mag, level, Before(_, _)) ==
            \E i \in 1..Len(freq_sweep) :
                /\ freq_sweep[i] = f
                /\ InBand(i)
                /\ mag[i] = level
                /\ \A j \in 1..(i - 1) : InBand(j) => Before(mag[j], mag[i])
        Less(x, y) == x < y
        More(x, y) == x > y
    IN  /\ pc = "preemph_analyzed" =>
              /\ FirstAt(max_at, mag_sweep, ripple1.mag_max_db, Less)
              /\ FirstAt(min_at, mag_sweep, ripple1.mag_min_db, More)
        /\ pc = "cascade_analyzed" =>
              /\ FirstAt(max_at, result_sweep.mag_db,
                         ripple_total.mag_max_db, Less)
              /\ FirstAt(min_at, result_sweep.mag_db,
                         ripple_total.mag_min_db, More)

\* C12: for a series with one and the same magnitude at every selected
\* passband point (an ideal all-pass response), ripple_db = 0, whatever
\* passband holds at least one grid point.  (SpecRipple)
C12_ConstantSeriesHasNoRipple ==
    (pc = "computed" /\ report # None) =>
        LET inside == {i \in 1..Len(frequencies) :
                          /\ passband_limits[1] <= frequencies[i]
                          /\ frequencies[i] <= passband_limits[2]}
        IN  (\A i, j \in inside : mag_db[i] = mag_db[j])
                => report.ripple_db = 0

C14_NoMutationAfterConstruction ==
    [][/\ (pc \in {"constructed", "called", "between"} \/ pc' = "called")
             => UNCHANGED <<preemph, notch, upsampler>>
       /\ pc = "supplied"
             => UNCHANGED <<mag_db, frequencies, passband_limits, notch>>]_vars

\* A notch object has been evaluated three times, by frequency_response,
\* by magnitude_db and by frequency_response again.
C14_ObjectEvaluatedThrice ==
    /\ pc = "repeated"
    /\ call.stage = "notch"
    /\ between.method = "magnitude_db"
    /\ notch # None
    /\ notch.b # <<>>

C16_ReplyTellsSuccessFromFailure ==
    (/\ pc = "replied"
     /\ port.answer # None
     /\ port.rx = <<Raw(Format(port.answer))>>)
        => (reply.ok <=> port.answer.kind = "success")

\* C17: every command a harness writes to the device ends with a newline;
\* ConsoleClient.send appends one exactly when the line does not end with
\* one already, and every other sender ends the command with a newline.
\* (SpecConsole)
C17_EveryCommandEndsWithNewline ==
    pc \in {"sent", "written"} =>
        /\ endswith(port.tx, <<"\n">>)
        /\ port.by = "ConsoleClient.send" =>
               port.tx = IF endswith(port.cmd, <<"\n">>)
                         THEN port.cmd
                         ELSE port.cmd \o <<"\n">>

\* C18: evaluated at f = 0 the pre-emphasis stage returns its DC gain
\* gain * (1 - alpha), 1.0224 for gain 3.0 and alpha 0.6592, whatever the
\* sample rate.  The tolerance of 1e-6 is below the resolution of the
\* model, so the values are equal.  (SpecFilters)
C18_DcGainOfPreEmphasis ==
    (pc = "called" /\ call.stage = "preemph" /\ call.f = 0) =>
        /\ H = <<Cx(MulFx(preemph.gain, One - preemph.alpha), 0)>>
        /\ CAbs(H[1]) = 10224

C18_EvaluatedAtZero ==
    /\ pc = "called"
    /\ call.stage = "preemph"
    /\ call.f = 0
    /\ call.fs = 76000
    /\ CAbs(H[1]) = 10224

\* C19: the notch built with center_freq = 19000 Hz, Q = 25 and
\* fs = 48000 Hz has a magnitude below -40 dB at 19000 Hz.  (SpecFilters)
C19_NotchDepth ==
    (/\ pc = "called"
     /\ call.stage = "notch"
     /\ call.f = 19000 /\ call.fs = 48000
     /\ notch.f_notch = 19000 /\ notch.Q = 25 /\ notch.fs = 48000)
        => FLt(magnitude_db(H)[1], -40 * One)

C19_NotchEvaluatedAtCenter ==
    /\ pc = "called"
    /\ call = [op |-> "frequency_response", stage |-> "notch", f |-> 19000,
               fs |-> 48000]
    /\ notch.f_notch = 19000 /\ notch.Q = 25 /\ notch.fs = 48000
    /\ CAbs(H[1]) < One \div 100

\* C20: the taps of the upsampler are scaled by the upsample factor L, so
\* that their sum, the gain at DC (the polynomial of the taps at z = 1),
\* is L within 1 % (L = 4, 96 taps).
\* (SpecFilters)
C20_TapsSumToUpsampleFactor ==
    (pc \in {"constructed", "called"} /\ upsampler # None) =>
        /\ Len(upsampler.h) = upsampler.num_taps
        /\ polyval(0, upsampler.h).im = 0
        /\ 100 * Abs(polyval(0, upsampler.h).re - upsampler.L * One)
              <= Abs(upsampler.L) * One

C20_UpsamplerByFourBuilt ==
    /\ pc = "constructed"
    /\ upsampler # None
    /\ upsampler.L = 4 /\ upsampler.num_taps = 96
    /\ upsampler.fs_in = 48000 /\ upsampler.cutoff_hz = 15000
    /\ polyval(0, upsampler.h).re > 3 * One

\* C21: a check that expects OK is recorded as passed only when the reply
\* of the device to that command is a success; a failure reply, an empty
\* response or a transport error string is never recorded as passed
\* (SerialConsoleTestor.test_command, DeviceTester.test,
\* SerialConsoleTest.test).  (SpecHarness)
C21_OnlySuccessPassesOkCheck ==
    (pc = "harness" /\ harness \in {"SerialConsoleTestor", "DeviceTester",
                                     "SerialConsoleTest"}) =>
        \A i \in 1..Len(results) :
            LET r         == results[i]
                expectsOk == IF harness = "SerialConsoleTestor"
                             THEN r.expected_pattern = OkWord
                             ELSE r.given /\ r.expected = OkWord
                passed    == IF harness = "SerialConsoleTestor"
                             THEN r.status = "PASS"
                             ELSE r.passed
            IN  (expectsOk /\ passed) => r.reply = "success"

\* C22: in a set/get check the GET is sent only after the SET response was
\* accepted as a success; when the reply to the SET is not a success the
\* GET is never sent, exactly one failing result is recorded and the check
\* returns False; every call records exactly one result
\* (CommandTester.test_set_get, DeviceTester.test_set_get).  (SpecHarness)
C22_GetOnlyAfterSuccessfulSet ==
    (pc = "harness" /\ outcome # None /\ outcome.op = "test_set_get") =>
        /\ Len(results) = step
        /\ outcome.calls[1].reply # "success" =>
              /\ Len(outcome.calls) = 1
              /\ ~results[Len(results)].passed
              /\ outcome.returned = FALSE

\* C23: the response a harness attributes to command k holds only bytes
\* the device emitted in reply to command k, however device output and
\* harness reads interleave: no byte of the reply to an earlier command is
\* returned as part of the response to a later one.  (SpecHarness)
C23_ResponseHoldsOnlyOwnReply ==
    (pc = "harness" /\ outcome # None) =>
        \A i \in 1..Len(outcome.calls) :
            outcome.calls[i].of \subseteq {outcome.calls[i].k}

\* The lines of a receive sequence that holds no reply, as read_reply
\* collects them: decoded, stripped, the blank ones skipped.
RECURSIVE Noise(_)
Noise(rx) ==
    IF rx = <<>> THEN <<>>
    ELSE LET line == strip(Head(rx))
         IN  IF line = <<>> THEN Noise(Tail(rx))
             ELSE <<line>> \o Noise(Tail(rx))

\* C24: read_reply returns for every receive sequence; when the device sent
\* no OK, ERR or JSON line before the deadline it returns False with
\* "Timeout; no response" if no line was seen, else with "Timeout; seen: "
\* and the last non-terminal lines, four at most, joined by " | "; and it
\* returns True only when the device did answer.  (Specification SpecConsole.)
C24_TimeoutReportsLastFourLines ==
    (pc = "replied") =>
        /\ reply.ok \in BOOLEAN
        /\ reply.ok => port.answer # None
        /\ port.answer = None =>
              LET noise == Noise(port.rx)
                  n     == Len(noise)
                  kept  == [i \in 1..(IF n > 4 THEN 4 ELSE n) |->
                               noise[i + (IF n > 4 THEN n - 4 ELSE 0)]]
              IN  /\ ~reply.ok
                  /\ reply.data = IF n = 0 THEN <<"Timeout; no response">>
                                  ELSE <<"Timeout; seen: ">> \o Join(kept)

\* The device only logged, more than four lines, and read_reply timed out.
C24_TimedOutAfterFiveLines ==
    /\ pc = "replied"
    /\ port.answer = None
    /\ Len(lines) > 4
    /\ ~reply.ok

\* C26: every call of SerialConsoleTestor.test_command appends exactly one
\* result; its status is PASS exactly when the expected pattern occurs in the
\* captured response, letter case ignored, and FAIL otherwise; no result is
\* PARTIAL or TIMEOUT, so that the counts of print_summary satisfy
\* passed + failed = total.  (Specification SpecHarness.)
C26_OneResultPassOrFail ==
    [][(harness = "SerialConsoleTestor" /\ outcome' # None
            /\ outcome'.op = "test_command") =>
          LET response == lower(outcome'.calls[1].response)
              result   == results'[Len(results')]
              pattern  == lower(result.expected_pattern)
              found    == \E i \in 0..Len(response) :
                              /\ i + Len(pattern) <= Len(response)
                              /\ \A j \in 1..Len(pattern) :
                                     response[i + j] = pattern[j]
              summary  == Testor_print_summary(results')
          IN  /\ Len(results') = Len(results) + 1
              /\ SubSeq(results', 1, Len(results)) = results
              /\ result.status = IF found THEN "PASS" ELSE "FAIL"
              /\ summary.passed + summary.failed = summary.total
              /\ summary.partial = 0 /\ summary.timeout = 0]_vars

\* Two calls of test_command, one recorded PASS on a response that holds the
\* pattern after its start, one recorded FAIL.
C26_OnePassOneFail ==
    /\ pc = "harness" /\ harness = "SerialConsoleTestor"
    /\ Len(results) = 2
    /\ \E i, j \in 1..2 :
          /\ results[i].status = "PASS"
          /\ results[i].expected_pattern = <<"1">>
          /\ results[j].status = "FAIL"

\* C29: a send never raises out of the harness: a failure of the transport
\* is returned as the string "ERROR: ..." or "SERIAL_ERROR: ..."; a send of
\* SerialConsoleTestor or DeviceTester without a connection returns the
\* empty string and writes nothing; and CommandTester.send_command adds
\* exactly one to command_count for every call, the failed ones included.
\* (Specification SpecHarness.)
C29_SendReturnsErrorsAsStrings ==
    [][(pc = "harness" /\ step' = step + 1) =>
          LET calls   == outcome'.calls
              written == {i \in 1..Len(calls) : calls[i].written}
          IN  /\ raised' = raised
              /\ \A i \in 1..Len(calls) :
                    /\ calls[i].transport = "failed" =>
                          /\ Len(calls[i].response) = 2
                          /\ calls[i].response[1] =
                                IF harness = "CommandTester"
                                THEN "SERIAL_ERROR: " ELSE "ERROR: "
                    /\ (calls[i].transport = "closed"
                          /\ harness \in {"SerialConsoleTestor", "DeviceTester"}) =>
                          calls[i].response = <<>> /\ ~calls[i].written
              /\ Len(sent') = Len(sent) + Cardinality(written)
              /\ harness = "CommandTester" =>
                    command_count' = command_count + Len(calls)]_vars

\* CommandTester has counted a send whose write failed and was reported
\* as a string.
C29_FailedSendCounted ==
    /\ pc = "harness" /\ harness = "CommandTester"
    /\ outcome # None
    /\ \E i \in 1..Len(outcome.calls) :
          /\ outcome.calls[i].transport = "failed"
          /\ ~outcome.calls[i].written
    /\ command_count > Len(sent)

\* C25: a harness that ends with an exit status exits 0 exactly when every
\* recorded result passed, and non-zero when a result failed or the
\* connection could not be opened (console_tester, CommandTester,
\* DeviceTester, test_direct; runs whose body no exception left).
\* (Specification SpecRun.)
C25_ExitStatusTellsResults ==
    (pc = "exited" /\ harness # "SerialConsoleTestor") =>
        /\ ~outcome.entered => exit_status # 0
        /\ (outcome.entered /\ ~outcome.raised) =>
              (exit_status = 0 <=> \A i \in 1..Len(results) : results[i].passed)

C28_PortClosedAfterBody ==
    (pc = "exited" /\ outcome.entered /\ harness # "test_direct") =>
        /\ ser # None
        /\ ~ser.is_open
        /\ ser.closes = 1

\* A run of console_tester whose body raised has ended with the port closed.
C28_ClosedAfterRaise ==
    /\ pc = "exited" /\ harness = "console_tester --json"
    /\ outcome.raised
    /\ ser # None /\ ~ser.is_open
    /\ sent # <<>>

=============================================================================
